---- MODULE Spec2Model ----
(***************************************************************************)
(* Component Remix Engine: the background remix handler (background.js),   *)
(* the remix client (utils/ai.js, callOpenAIForRemix), the sidebar remix   *)
(* button (content.js) and the library store (utils/storage.js).           *)
(*                                                                         *)
(* Text is modelled as a sequence of tokens.  A prompt or a key is a       *)
(* sequence of characters of which " " is the only whitespace; an error    *)
(* message is a sequence of phrases; a completion text is a sequence of    *)
(* chunks (whitespace, prose, a code fence, the serialisation of a JSON    *)
(* value, malformed JSON).                                                 *)
(***************************************************************************)
EXTENDS Integers, Sequences, FiniteSets, TLC

\* Bounds of the model.
MaxVariants == 4
MaxMessages == 2
MaxClock == 1
MaxCalls == 2
MaxEvents == 4

(***************************************************************************)
(* Text helpers.                                                           *)
(***************************************************************************)
RECURSIVE TrimStart(_)
TrimStart(s) == IF s # <<>> /\ Head(s) = " " THEN TrimStart(Tail(s)) ELSE s

RECURSIVE TrimEnd(_)
TrimEnd(s) ==
  IF s # <<>> /\ s[Len(s)] = " " THEN TrimEnd(SubSeq(s, 1, Len(s) - 1)) ELSE s

\* String.prototype.trim
Trim(s) == TrimEnd(TrimStart(s))

\* <<phrase, needle>>: the phrase contains the needle as a substring.
TokenContains ==
  { <<"Failed to fetch", "fetch">>,
    <<"401", "401">>,
    <<"429", "429">>,
    <<"Incorrect API key provided", "API key">>,
    <<"Network unreachable", "Network">> }

\* String.prototype.includes on a message made of phrases.
Includes(msg, needle) ==
  \E i \in 1..Len(msg) : <<msg[i], needle>> \in TokenContains

(***************************************************************************)
(* JSON values and completion texts.                                       *)
(***************************************************************************)
JNull == [t |-> "null"]
JNumber(n) == [t |-> "number", n |-> n]
JString(s) == [t |-> "string", s |-> s]
JArray(items) == [t |-> "array", items |-> items]
JObject(f) == [t |-> "object", f |-> f]
NoFields == [x \in {} |-> JNull]

\* JavaScript truthiness of a JSON value.
Truthy(v) ==
  CASE v.t = "null" -> FALSE
    [] v.t = "number" -> v.n # 0
    [] v.t = "string" -> v.s # ""
    [] OTHER -> TRUE

WsChunk == [k |-> "ws"]
ProseChunk == [k |-> "prose"]
JunkChunk == [k |-> "junk"]
FenceChunk(tag) == [k |-> "fence", tag |-> tag]
ValChunk(v) == [k |-> "val", v |-> v]

RECURSIVE StripWsStart(_)
StripWsStart(c) ==
  IF c # <<>> /\ Head(c).k = "ws" THEN StripWsStart(Tail(c)) ELSE c

RECURSIVE StripWsEnd(_)
StripWsEnd(c) ==
  IF c # <<>> /\ c[Len(c)].k = "ws"
  THEN StripWsEnd(SubSeq(c, 1, Len(c) - 1)) ELSE c

\* JSON.parse: surrounding whitespace is allowed, anything else around or
\* instead of one serialised value is a SyntaxError.
JSONParse(text) ==
  LET core == StripWsEnd(StripWsStart(text)) IN
  IF Len(core) = 1 /\ core[1].k = "val"
  THEN [ok |-> TRUE, v |-> core[1].v]
  ELSE [ok |-> FALSE, v |-> JNull]

\* The tagged opening fence of /```json([\s\S]*?)```/i
IsJsonFence(c) == c.k = "fence" /\ c.tag \in {"json", "JSON"}

\* content.match(/```json([\s\S]*?)```/i): the leftmost tagged fence that is
\* followed by three backticks, and the text up to the nearest ones.
FenceMatch(content) ==
  LET opens == { i \in 1..Len(content) :
                   /\ IsJsonFence(content[i])
                   /\ \E j \in (i + 1)..Len(content) : content[j].k = "fence" }
  IN IF opens = {}
     THEN [found |-> FALSE, group |-> <<>>]
     ELSE LET i == CHOOSE a \in opens : \A b \in opens : a <= b
              j == CHOOSE a \in (i + 1)..Len(content) :
                     /\ content[a].k = "fence"
                     /\ \A b \in (i + 1)..(a - 1) : content[b].k # "fence"
          IN [found |-> TRUE, group |-> SubSeq(content, i + 1, j - 1)]

\* ParseContent without the fence stage.
ParseContentDirectOnly(content) == JSONParse(content)

\* The parse of the completion text: JSON.parse, and on a SyntaxError the
\* text of the tagged fence when there is one (its SyntaxError escapes).
ParseContent(content) ==
  LET direct == JSONParse(content) IN
  IF direct.ok
  THEN direct
  ELSE LET m == FenceMatch(content) IN
       IF m.found THEN JSONParse(m.group) ELSE direct

(***************************************************************************)
(* The remix client: callOpenAIForRemix after its fetch has settled.       *)
(***************************************************************************)
DEFAULT_DUMMY_KEY == <<"sk-dummykey1234567890">>

ErrFetch == <<"Failed to fetch">>
ErrStatus(status, body) == <<"OpenAI request failed (", status, "): ">> \o body
ErrMissingContent == <<"OpenAI response missing content.">>
ErrSyntax == <<"Unexpected token in JSON">>
ErrNoVariants == <<"OpenAI response did not contain a variants array.">>
ErrNullItem == <<"Cannot read properties of null (reading 'html')">>

Thrown(msg) == [ok |-> FALSE, error |-> msg, variants |-> <<>>]
Returned(vs) == [ok |-> TRUE, error |-> <<>>, variants |-> vs]

\* v.html || ""
FieldOr(item, name) == IF name \in DOMAIN item.f THEN item.f[name] ELSE ""

\* One element of parsed.variants.map(...)
NormalizeVariant(item) ==
  [html |-> FieldOr(item, "html"),
   css |-> FieldOr(item, "css"),
   description |-> FieldOr(item, "description")]

\* HasVariantsArray with an emptiness test added.
HasVariantsArrayNonEmpty(parsed) ==
  /\ parsed.t = "object"
  /\ "variants" \in DOMAIN parsed.f
  /\ parsed.f.variants.t = "array"
  /\ parsed.f.variants.items # <<>>

\* !parsed?.variants || !Array.isArray(parsed.variants) is false
HasVariantsArray(parsed) ==
  /\ parsed.t = "object"
  /\ "variants" \in DOMAIN parsed.f
  /\ Truthy(parsed.f.variants)
  /\ parsed.f.variants.t = "array"

\* MapVariants followed by a filter that drops the variants empty in html and
\* css.
MapVariantsDropEmpty(items) ==
  IF \E i \in 1..Len(items) : items[i].t = "null"
  THEN Thrown(ErrNullItem)
  ELSE Returned(SelectSeq([i \in 1..Len(items) |-> NormalizeVariant(items[i])],
                          LAMBDA v : v.html # "" \/ v.css # ""))

\* parsed.variants.map((v) => ({...})): reading a field of null throws.
MapVariants(items) ==
  IF \E i \in 1..Len(items) : items[i].t = "null"
  THEN Thrown(ErrNullItem)
  ELSE Returned([i \in 1..Len(items) |-> NormalizeVariant(items[i])])

\* What callOpenAIForRemix returns or throws for a settled fetch.
RemixResult(o) ==
  CASE o.kind = "neterr" -> Thrown(ErrFetch)
    [] o.kind = "status" -> Thrown(ErrStatus(o.status, o.body))
    [] o.kind = "badjson" -> Thrown(ErrSyntax)
    [] OTHER ->
         IF ~o.hasContent \/ o.content = <<>>
         THEN Thrown(ErrMissingContent)
         ELSE LET p == ParseContent(o.content) IN
              IF ~p.ok THEN Thrown(ErrSyntax)
              ELSE IF ~HasVariantsArray(p.v) THEN Thrown(ErrNoVariants)
              ELSE MapVariants(p.v.f.variants.items)

(***************************************************************************)
(* The background listener.                                                *)
(***************************************************************************)
MsgBothEmpty == <<"Cannot remix: component HTML and CSS are both empty.">>
MsgNoPrompt == <<"Please provide a remix prompt (e.g., 'add dark mode').">>
MsgBadKeyFormat == <<"Invalid API key format.">>
MsgUnknownType == <<"Unknown message type: ">>
MsgUnexpected == <<"Unexpected error in background service worker.">>
MsgInvalidKey == <<"Invalid OpenAI API key. Please check your settings.">>
MsgNetwork == <<"Network error. Please check your internet connection.">>
MsgRateLimit == <<"OpenAI API rate limit exceeded. Please try again later.">>
MsgSaveKeyFailed == <<"Failed to save API key: ", "storage error">>

OkResponse(vs) == [ok |-> TRUE, error |-> <<>>, variants |-> vs, key |-> <<>>]
KeyResponse(k) == [ok |-> TRUE, error |-> <<>>, variants |-> <<>>, key |-> k]
ErrorResponse(e) == [ok |-> FALSE, error |-> e, variants |-> <<>>, key |-> <<>>]

\* The catch block with the rate-limit test ahead of the credential test.
CatchMessageRateFirst(err) ==
  LET m == IF err # <<>> THEN err ELSE MsgUnexpected IN
  IF Includes(m, "rate limit") \/ Includes(m, "429") THEN MsgRateLimit
  ELSE IF Includes(m, "API key") \/ Includes(m, "401") THEN MsgInvalidKey
  ELSE IF Includes(m, "Network") \/ Includes(m, "fetch") THEN MsgNetwork
  ELSE m

\* The catch block of the listener: the user-facing message of an error.
CatchMessage(err) ==
  LET m == IF err # <<>> THEN err ELSE MsgUnexpected IN
  IF Includes(m, "API key") \/ Includes(m, "401") THEN MsgInvalidKey
  ELSE IF Includes(m, "Network") \/ Includes(m, "fetch") THEN MsgNetwork
  ELSE IF Includes(m, "rate limit") \/ Includes(m, "429") THEN MsgRateLimit
  ELSE m

\* A field of message.payload || {}, by its falsiness.
Has(payload, name) == name \in DOMAIN payload
HtmlFalsy(payload) == ~Has(payload, "html") \/ payload.html = ""
CssFalsy(payload) == ~Has(payload, "css") \/ payload.css = ""
PromptBlank(payload) ==
  ~Has(payload, "prompt") \/ payload.prompt = <<>> \/ Trim(payload.prompt) = <<>>

\* ValidateRemix with a prompt test that forgets to trim.
ValidateRemixUntrimmed(payload) ==
  IF HtmlFalsy(payload) /\ CssFalsy(payload) THEN MsgBothEmpty
  ELSE IF ~Has(payload, "prompt") \/ payload.prompt = <<>> THEN MsgNoPrompt
  ELSE <<>>

\* The validation of an AI_REMIX payload: the error it is answered with,
\* or <<>> when it passes.
ValidateRemix(payload) ==
  IF HtmlFalsy(payload) /\ CssFalsy(payload) THEN MsgBothEmpty
  ELSE IF PromptBlank(payload) THEN MsgNoPrompt
  ELSE <<>>

(***************************************************************************)
(* Inputs of the remix model.                                              *)
(***************************************************************************)
VA == JObject([html |-> "<a/>", css |-> ".a{}", description |-> "da"])
VB == JObject([html |-> "<b/>"])
VE == JObject([html |-> "", description |-> "empty"])
VariantItems == {VA, VB, VE}

VariantArrays == UNION { [1..k -> VariantItems] : k \in 0..MaxVariants }

WithVariants(v) == JObject([variants |-> v])

JsonValues ==
  { WithVariants(JArray(a)) : a \in VariantArrays }
    \cup { JNull, JNumber(5), JArray(<<>>), JObject(NoFields),
           WithVariants(JNull), WithVariants(JString("x")),
           WithVariants(JNumber(0)), WithVariants(JObject(NoFields)),
           WithVariants(JArray(<<JNull>>)),
           WithVariants(JArray(<<VA, JNull>>)) }

WrappedValues ==
  { WithVariants(JArray(<<VA, VB>>)), WithVariants(JArray(<<>>)),
    JObject(NoFields) }

Wrappings(v) ==
  { <<WsChunk, ValChunk(v), WsChunk>>,
    <<FenceChunk("json"), WsChunk, ValChunk(v), WsChunk, FenceChunk("")>>,
    <<ProseChunk, FenceChunk("JSON"), ValChunk(v), FenceChunk(""), ProseChunk>>,
    <<FenceChunk(""), ValChunk(v), FenceChunk("")>>,
    <<ProseChunk, ValChunk(v), ProseChunk>>,
    <<FenceChunk("json"), ValChunk(v)>>,
    <<FenceChunk("json"), ProseChunk, FenceChunk("json"), ValChunk(v),
      FenceChunk("")>>,
    <<FenceChunk("json"), JunkChunk, FenceChunk(""), ValChunk(v)>> }

Contents ==
  { <<ValChunk(v)>> : v \in JsonValues }
    \cup UNION { Wrappings(v) : v \in WrappedValues }
    \cup { <<ProseChunk>>, <<JunkChunk>> }

Outcome(kind, status, body, hasContent, content) ==
  [kind |-> kind, status |-> status, body |-> body,
   hasContent |-> hasContent, content |-> content]

NoOutcome == Outcome("none", "", <<>>, FALSE, <<>>)

Bodies ==
  { <<>>, <<"Incorrect API key provided">>, <<"Rate limit reached">>,
    <<"Network unreachable">>, <<"server error">> }

Outcomes ==
  { Outcome("neterr", "", <<>>, FALSE, <<>>),
    Outcome("badjson", "200", <<>>, FALSE, <<>>),
    Outcome("ok", "200", <<>>, FALSE, <<>>),
    Outcome("ok", "200", <<>>, TRUE, <<>>) }
    \cup { Outcome("status", st, b, FALSE, <<>>) :
             st \in {"401", "429", "500"}, b \in Bodies }
    \cup { Outcome("ok", "200", <<>>, TRUE, c) : c \in Contents }

KeyInputs == { <<>>, <<" ">>, <<" ", "K">> }
PromptInputs == { <<>>, <<" ">>, <<" ", "g", " ">> }

Message(type, payload) == [type |-> type, payload |-> payload]
NoMsg == Message("none", <<>>)
NoPayload == [x \in {} |-> ""]

Components ==
  { [html |-> "<p/>", css |-> ""], [html |-> "<p/>", css |-> ".cre-component {}"] }

RemixPayloads ==
  { [prompt |-> <<"g">>], [html |-> "", css |-> "", prompt |-> <<"g">>],
    [html |-> "<p/>"], [html |-> "<p/>", css |-> "", prompt |-> <<>>],
    [css |-> ".p{}", prompt |-> <<" ">>],
    [css |-> ".p{}", prompt |-> <<" ", "g">>], NoPayload }

DirectMessages ==
  { Message("AI_REMIX", p) : p \in RemixPayloads }
    \cup { Message("SET_API_KEY", [key |-> k]) : k \in KeyInputs }
    \cup { Message("SET_API_KEY", NoPayload), Message("GET_API_KEY", NoPayload),
           Message("CRE_LATEST_COMPONENT", NoPayload) }

(***************************************************************************)
(* State.                                                                  *)
(***************************************************************************)
VARIABLES
  syncAvailable,  \* chrome.storage.sync exists in the running context
  localKey,       \* chrome.storage.local creSettings.openaiApiKey, <<>> unset
  syncKey,        \* chrome.storage.sync creSettings.openaiApiKey, <<>> unset
  cachedApiKey,   \* background.js cachedApiKey, <<>> for null or ""
  msg,            \* the message the background listener is serving
  origin,         \* "sidebar" or "direct": who sent msg
  pc,             \* where the listener's async handler stands
  apiKeyArg,      \* the second argument of the callOpenAIForRemix call
  http,           \* the requests fetch() sent for msg
  outcome,        \* how that fetch settled
  responses,      \* the sendResponse calls made for msg
  delivered,      \* number of messages delivered so far
  sbComponent,    \* the component the sidebar was opened for
  sbStatus,       \* the sidebar's status line
  sbRendered,     \* number of variant cards in the sidebar
  notified        \* CRE_LATEST_COMPONENT was sent for the last response

remixVars ==
  <<syncAvailable, localKey, syncKey, cachedApiKey, msg, origin, pc, apiKeyArg,
    http, outcome, responses, delivered, sbComponent, sbStatus, sbRendered,
    notified>>

VARIABLES
  writeFaults,    \* chrome.storage.sync.set may fail in this run
  stored,         \* chrome.storage.sync holds a value under STORAGE_KEY
  store,          \* that value: the persisted collection
  clock,          \* Date.now()
  calls,          \* the library store calls in progress, by slot
  started         \* number of library store calls started so far

storeVars == <<writeFaults, stored, store, clock, calls, started>>

\* The popup (popup.js).
VARIABLES
  allComponents,          \* popup.js allComponents
  toast,                  \* the text of the last showToast call, <<>>: none
  isLoading,              \* popup.js isLoading
  popupPc,                \* the popup handler that awaits a library store call
  popupComp,              \* the entry the edit or delete handler was wired for
  latestComponentPayload, \* popup.js latestComponentPayload
  searchResult,           \* the last searchComponents call and its result
  defaultFramework,       \* popup.js defaultFramework
  toggle,                 \* the extraction toggle and its message to the tab
  exported                \* the last code copied or downloaded by Export

popupVars ==
  <<allComponents, toast, isLoading, popupPc, popupComp,
    latestComponentPayload, searchResult, defaultFramework, toggle, exported>>

\* The content script (content.js).
VARIABLES
  isExtracting,           \* content.js isExtracting
  hoverOverlay,           \* content.js hoverOverlay: "none", "hidden", "shown"
  sidebarEl,              \* the component the sidebar shows, NoComponent: none
  lastExtractedComponent, \* content.js lastExtractedComponent
  alertText,              \* the text of the last alert() call, "" for none
  pageDoc,                \* the elements of the page that can be clicked
  extracted,              \* the last extractElement call and its outcome
  clicks,                 \* number of page events handled so far
  listeners,              \* registrations on document, by event type
  overlayNodes,           \* number of #cre-hover-overlay nodes in the page
  rendered,               \* what #cre-variants-container of the sidebar holds
  notification,           \* the CRE_LATEST_COMPONENT messages on their way
  remixes                 \* the AI_REMIX requests the sidebars have sent

pageVars ==
  <<isExtracting, hoverOverlay, sidebarEl, lastExtractedComponent, alertText,
    pageDoc, extracted, clicks, listeners, overlayNodes, rendered,
    notification, remixes>>

vars == <<remixVars, storeVars, popupVars, pageVars>>

sbVars == <<sbComponent, sbStatus, sbRendered, notified>>

Callers == {1, 2}

NoCall ==
  [pc |-> "idle", kind |-> "none", partial |-> <<>>, id |-> <<>>,
   patch |-> <<>>, current |-> <<>>, next |-> <<>>, entry |-> <<>>,
   now |-> 0, dirty |-> FALSE, failed |-> FALSE]

StoreIdle ==
  /\ stored = FALSE
  /\ store = <<>>
  /\ clock = 0
  /\ calls = [p \in Callers |-> NoCall]
  /\ started = 0

\* No component: lastExtractedComponent = null, sidebarEl = null.
\* The empty string as CSS text.
EmptyCss == [selector |-> "", lines |-> <<>>]

NoComponent == [html |-> <<>>, css |-> EmptyCss, none |-> TRUE]

NoSearch == [query |-> <<>>, all |-> <<>>, result |-> <<>>, seq |-> 0]

NoExtract == [kind |-> "none", seq |-> 0, by |-> "none"]

\* No handler is registered on document.
NoListeners == [mousemove |-> 0, click |-> 0]

\* The variants container of a sidebar just built, or no sidebar.
NoRender == [none |-> TRUE]

\* No CRE_LATEST_COMPONENT message is on its way to the popup.
NoNotification == <<>>

\* The toggle button as the popup's page is loaded: dataset.state is not
\* "on" and no message to the tab is in flight.
NoToggle == [state |-> "off", flight |-> <<>>]

\* Nothing was copied or downloaded.
NoExport == [via |-> "none"]

\* The popup is closed.
PopupIdle ==
  /\ allComponents = <<>>
  /\ toast = <<>>
  /\ isLoading = FALSE
  /\ popupPc = "closed"
  /\ popupComp = <<>>
  /\ latestComponentPayload = <<>>
  /\ searchResult = NoSearch
  /\ defaultFramework = "react"
  /\ toggle = NoToggle
  /\ exported = NoExport

\* The content script has just been injected.
PageIdle ==
  /\ isExtracting = FALSE
  /\ hoverOverlay = "none"
  /\ sidebarEl = NoComponent
  /\ lastExtractedComponent = NoComponent
  /\ alertText = ""
  /\ pageDoc = <<>>
  /\ extracted = NoExtract
  /\ clicks = 0
  /\ listeners = NoListeners
  /\ overlayNodes = 0
  /\ rendered = NoRender
  /\ notification = NoNotification
  /\ remixes = <<>>

\* The service worker reads chrome.storage.local unguarded: it runs where the
\* storage API exists.
InitRemix ==
  /\ writeFaults = FALSE
  /\ StoreIdle
  /\ PopupIdle
  /\ PageIdle
  /\ syncAvailable = TRUE
  /\ localKey \in {<<>>, <<"L">>}
  /\ syncKey \in {<<>>, <<"S">>}
  /\ cachedApiKey = <<>>
  /\ msg = NoMsg
  /\ origin = "direct"
  /\ pc = "idle"
  /\ apiKeyArg = <<>>
  /\ http = <<>>
  /\ outcome = NoOutcome
  /\ responses = <<>>
  /\ delivered = 0
  /\ sbComponent \in Components
  /\ sbStatus = ""
  /\ sbRendered = 0
  /\ notified = FALSE

\* background.js getApiKey once chrome.storage.local has answered.
BgStoredKey(key) == IF key # <<>> THEN key ELSE DEFAULT_DUMMY_KEY

\* utils/ai.js getApiKey.
AiGetApiKey(available, key) ==
  IF ~available THEN DEFAULT_DUMMY_KEY
  ELSE IF key # <<>> /\ Trim(key) # <<>> THEN Trim(key)
  ELSE DEFAULT_DUMMY_KEY

\* The request callOpenAIForRemix hands to fetch.
HttpRequest(apiKey, arg) ==
  [bearer |-> apiKey, html |-> arg.html, css |-> arg.css, prompt |-> arg.prompt]

\* The first argument the listener passes to callOpenAIForRemix.
RemixArg(payload) ==
  [html |-> IF HtmlFalsy(payload) THEN "" ELSE payload.html,
   css |-> IF CssFalsy(payload) THEN "" ELSE payload.css,
   prompt |-> Trim(payload.prompt)]

\* A handler that returns without calling sendResponse.
RespondNothing(r) ==
  /\ responses' = responses
  /\ pc' = "done"

\* sendResponse(r), after which the handler returns.
Respond(r) ==
  /\ responses' = Append(responses, r)
  /\ pc' = "done"

\* The response to a settled callOpenAIForRemix call: sendResponse({ok:true,
\* variants}) or the catch block's sendResponse.
RemixResponse(r) ==
  IF r.ok THEN OkResponse(r.variants) ELSE ErrorResponse(CatchMessage(r.error))

\* content.js: the remix button's click handler.
SidebarRemixClick(input) ==
  /\ pc = "idle"
  /\ delivered < MaxMessages
  /\ LET prompt == Trim(input) IN
     IF prompt = <<>>
     THEN /\ sbStatus' = "enter-prompt"
          /\ UNCHANGED <<msg, origin, pc, delivered, http, outcome, responses>>
     ELSE /\ sbStatus' = "contacting"
          /\ msg' = Message("AI_REMIX",
                            [html |-> sbComponent.html, css |-> sbComponent.css,
                             prompt |-> prompt])
          /\ origin' = "sidebar"
          /\ pc' = "sent"
          /\ delivered' = delivered + 1
          /\ http' = <<>>
          /\ outcome' = NoOutcome
          /\ responses' = <<>>
  /\ UNCHANGED <<storeVars, popupVars, pageVars>>
  /\ UNCHANGED <<syncAvailable, localKey, syncKey, cachedApiKey, apiKeyArg,
                 sbComponent, sbRendered, notified>>

\* chrome.runtime.sendMessage from any other extension context.
SendDirect(m) ==
  /\ pc = "idle"
  /\ delivered < MaxMessages
  /\ msg' = m
  /\ origin' = "direct"
  /\ pc' = "sent"
  /\ delivered' = delivered + 1
  /\ http' = <<>>
  /\ outcome' = NoOutcome
  /\ responses' = <<>>
  /\ UNCHANGED <<storeVars, popupVars, pageVars>>
  /\ UNCHANGED <<syncAvailable, localKey, syncKey, cachedApiKey, apiKeyArg, sbVars>>

\* background.js: the listener up to its first pending storage or network call.
BgOnMessage ==
  /\ pc = "sent"
  /\ CASE msg.type = "AI_REMIX" ->
            LET e == ValidateRemix(msg.payload) IN
            IF e # <<>>
            THEN Respond(ErrorResponse(e)) /\ UNCHANGED <<cachedApiKey, apiKeyArg>>
            ELSE IF cachedApiKey # <<>>
            THEN /\ apiKeyArg' = cachedApiKey
                 /\ pc' = "aiKey"
                 /\ UNCHANGED <<cachedApiKey, responses>>
            ELSE /\ pc' = "bgKey"
                 /\ UNCHANGED <<cachedApiKey, apiKeyArg, responses>>
       [] msg.type = "GET_API_KEY" ->
            IF cachedApiKey # <<>>
            THEN Respond(KeyResponse(cachedApiKey))
                 /\ UNCHANGED <<cachedApiKey, apiKeyArg>>
            ELSE /\ pc' = "bgKey"
                 /\ UNCHANGED <<cachedApiKey, apiKeyArg, responses>>
       [] msg.type = "SET_API_KEY" ->
            IF ~Has(msg.payload, "key") \/ msg.payload.key = <<>>
            THEN Respond(ErrorResponse(MsgBadKeyFormat))
                 /\ UNCHANGED <<cachedApiKey, apiKeyArg>>
            ELSE /\ cachedApiKey' = Trim(msg.payload.key)
                 /\ pc' = "setKey"
                 /\ UNCHANGED <<apiKeyArg, responses>>
       [] OTHER ->
            Respond(ErrorResponse(MsgUnknownType \o <<msg.type>>))
            /\ UNCHANGED <<cachedApiKey, apiKeyArg>>
  /\ UNCHANGED <<storeVars, popupVars, pageVars>>
  /\ UNCHANGED <<syncAvailable, localKey, syncKey, msg, origin, http, outcome,
                 delivered, sbVars>>

\* background.js getApiKey: the chrome.storage.local.get callback, and what the
\* handler does with the key.
BgKeyRead ==
  /\ pc = "bgKey"
  /\ cachedApiKey' = BgStoredKey(localKey)
  /\ IF msg.type = "AI_REMIX"
     THEN /\ apiKeyArg' = cachedApiKey'
          /\ pc' = "aiKey"
          /\ UNCHANGED responses
     ELSE Respond(KeyResponse(cachedApiKey')) /\ UNCHANGED apiKeyArg
  /\ UNCHANGED <<storeVars, popupVars, pageVars>>
  /\ UNCHANGED <<syncAvailable, localKey, syncKey, msg, origin, http, outcome,
                 delivered, sbVars>>

\* background.js setApiKey: the chrome.storage.local.set callback.
BgSetKeyDone(failed) ==
  /\ pc = "setKey"
  /\ IF failed
     THEN Respond(ErrorResponse(MsgSaveKeyFailed)) /\ UNCHANGED localKey
     ELSE Respond(OkResponse(<<>>)) /\ localKey' = Trim(msg.payload.key)
  /\ UNCHANGED <<storeVars, popupVars, pageVars>>
  /\ UNCHANGED <<syncAvailable, syncKey, cachedApiKey, msg, origin, apiKeyArg,
                 http, outcome, delivered, sbVars>>

\* utils/ai.js callOpenAIForRemix up to fetch(): its own getApiKey, then the
\* request.
AiFetch ==
  /\ pc = "aiKey"
  /\ http' = Append(http, HttpRequest(AiGetApiKey(syncAvailable, syncKey),
                                      RemixArg(msg.payload)))
  /\ pc' = "fetch"
  /\ UNCHANGED <<storeVars, popupVars, pageVars>>
  /\ UNCHANGED <<syncAvailable, localKey, syncKey, cachedApiKey, msg, origin,
                 apiKeyArg, outcome, responses, delivered, sbVars>>

\* The fetch settles: the rest of callOpenAIForRemix and of the handler.
FetchSettle(o) ==
  /\ pc = "fetch"
  /\ outcome' = o
  /\ Respond(RemixResponse(RemixResult(o)))
  /\ UNCHANGED <<storeVars, popupVars, pageVars>>
  /\ UNCHANGED <<syncAvailable, localKey, syncKey, cachedApiKey, msg, origin,
                 apiKeyArg, http, delivered, sbVars>>

\* The service worker is stopped and later started again: its module state is
\* initialised anew and a handler that was waiting never answers.
WorkerRestart ==
  /\ pc \in {"idle", "bgKey", "setKey", "aiKey", "fetch"}
  /\ cachedApiKey' = <<>>
  /\ pc' = IF pc = "idle" THEN "idle" ELSE "lost"
  /\ UNCHANGED <<storeVars, popupVars, pageVars>>
  /\ UNCHANGED <<syncAvailable, localKey, syncKey, msg, origin, apiKeyArg, http,
                 outcome, responses, delivered, sbVars>>

\* content.js: the callback of the sidebar's AI_REMIX sendMessage.
SidebarOnResponse ==
  /\ pc \in {"done", "lost"}
  /\ origin = "sidebar"
  /\ IF pc = "lost"
     THEN /\ sbStatus' = "comm-failed"
          /\ UNCHANGED <<sbRendered, notified>>
     ELSE LET response == responses[1] IN
          IF ~response.ok
          THEN /\ sbStatus' = "error"
               /\ UNCHANGED <<sbRendered, notified>>
          ELSE IF Len(response.variants) = 0
          THEN /\ sbStatus' = "no-variants"
               /\ UNCHANGED <<sbRendered, notified>>
          ELSE /\ sbStatus' = "generated"
               /\ sbRendered' = Len(response.variants)
               /\ notified' = TRUE
  /\ pc' = "idle"
  /\ msg' = NoMsg
  /\ http' = <<>>
  /\ outcome' = NoOutcome
  /\ responses' = <<>>
  /\ UNCHANGED <<storeVars, popupVars, pageVars>>
  /\ UNCHANGED <<syncAvailable, localKey, syncKey, cachedApiKey, apiKeyArg,
                 origin, delivered, sbComponent>>

\* The callback of a sendMessage made elsewhere.
DirectOnResponse ==
  /\ pc \in {"done", "lost"}
  /\ origin = "direct"
  /\ pc' = "idle"
  /\ msg' = NoMsg
  /\ http' = <<>>
  /\ outcome' = NoOutcome
  /\ responses' = <<>>
  /\ UNCHANGED <<storeVars, popupVars, pageVars>>
  /\ UNCHANGED <<syncAvailable, localKey, syncKey, cachedApiKey, apiKeyArg,
                 origin, delivered, sbVars>>

\* popup.js: the "save settings" button.
PopupSaveSettings(input, failed) ==
  /\ syncAvailable
  /\ LET key == Trim(input) IN
     IF key = <<>> \/ failed THEN UNCHANGED syncKey ELSE syncKey' = key
  /\ UNCHANGED <<storeVars, popupVars, pageVars>>
  /\ UNCHANGED <<syncAvailable, localKey, cachedApiKey, msg, origin, pc,
                 apiKeyArg, http, outcome, responses, delivered, sbVars>>

(***************************************************************************)
(* The library store (utils/storage.js).                                   *)
(***************************************************************************)
TimeMod == 1679616

Rands == {"r1", "r2"}

\* createId: "cre-" + six random base-36 digits + "-" + the last four base-36
\* digits of Date.now().
createId(rand, now) == <<"cre-", rand, "-", ToString(now % TimeMod)>>

\* getAllComponents: raw[STORAGE_KEY] || [], and [] without chrome.storage.sync.
getAllComponents == IF syncAvailable /\ stored THEN store ELSE <<>>

\* partial.<name> || dflt for a text field.
TextOr(partial, name, dflt) ==
  IF Has(partial, name) /\ partial[name] # "" THEN partial[name] ELSE dflt

\* partial.<name> || [] for a list field.
ListOr(partial, name) == IF Has(partial, name) THEN partial[name] ELSE <<>>

\* The entry saveComponent builds.
NewEntry(partial, id, now) ==
  [id |-> id,
   name |-> TextOr(partial, "name", "Untitled component"),
   tags |-> ListOr(partial, "tags"),
   originalHTML |-> TextOr(partial, "originalHTML", ""),
   originalCSS |-> TextOr(partial, "originalCSS", ""),
   remixedVariants |-> ListOr(partial, "remixedVariants"),
   generatedCode |-> TextOr(partial, "generatedCode", ""),
   framework |-> TextOr(partial, "framework", "react"),
   createdAt |-> now,
   updatedAt |-> now]

\* Merge that spreads the patch after the time stamp.
MergePatchLast(c, patch, now) ==
  [f \in DOMAIN c \cup DOMAIN patch \cup {"updatedAt"} |->
     IF f \in DOMAIN patch THEN patch[f]
     ELSE IF f = "updatedAt" THEN now
     ELSE c[f]]

\* { ...c, ...patch, updatedAt: Date.now() }
Merge(c, patch, now) ==
  [f \in DOMAIN c \cup DOMAIN patch \cup {"updatedAt"} |->
     IF f = "updatedAt" THEN now
     ELSE IF f \in DOMAIN patch THEN patch[f]
     ELSE c[f]]

\* SaveNext with the new entry put first.
SaveNextPrepend(current, entry) == <<entry>> \o current

\* saveComponent's [...current, entry]
SaveNext(current, entry) == Append(current, entry)

\* UpdateAll that adds an entry when none has the id.
UpdateAllUpsert(current, id, patch, now) ==
  IF \E i \in 1..Len(current) : current[i].id = id
  THEN [i \in 1..Len(current) |->
          IF current[i].id = id THEN Merge(current[i], patch, now)
          ELSE current[i]]
  ELSE Append(current, NewEntry(patch, id, now))

\* updateComponent's current.map(...)
UpdateAll(current, id, patch, now) ==
  [i \in 1..Len(current) |->
     IF current[i].id = id THEN Merge(current[i], patch, now) ELSE current[i]]

\* DeleteAll that also drops every entry after the first one removed.
DeleteAllTruncate(current, id) ==
  IF \E i \in 1..Len(current) : current[i].id = id
  THEN SubSeq(current, 1,
              (CHOOSE i \in 1..Len(current) :
                 /\ current[i].id = id
                 /\ \A j \in 1..(i - 1) : current[j].id # id) - 1)
  ELSE current

\* deleteComponent's current.filter(...)
DeleteAll(current, id) == SelectSeq(current, LAMBDA c : c.id # id)

\* The partial record popup.js passes to saveComponent.
PopupPartial ==
  [name |-> "B", tags |-> <<"t1">>, originalHTML |-> "<p/>",
   originalCSS |-> ".p{}", remixedVariants |-> <<NormalizeVariant(VA)>>,
   generatedCode |-> "code", framework |-> "vue"]

Partials == { NoPayload, [name |-> ""], PopupPartial }

\* The ids update and delete are called with: one that a stored entry carries
\* and one that only a later save can produce.
TargetIds == { createId("r1", 0), createId("r2", 1) }

Patches ==
  { NoPayload, [name |-> "X", tags |-> <<"t2">>],
    [id |-> createId("r1", 0), createdAt |-> 5, updatedAt |-> 0] }

RemixIdle ==
  /\ localKey = <<>>
  /\ syncKey = <<>>
  /\ cachedApiKey = <<>>
  /\ msg = NoMsg
  /\ origin = "direct"
  /\ pc = "idle"
  /\ apiKeyArg = <<>>
  /\ http = <<>>
  /\ outcome = NoOutcome
  /\ responses = <<>>
  /\ delivered = 0
  /\ sbComponent = [html |-> "<p/>", css |-> ""]
  /\ sbStatus = ""
  /\ sbRendered = 0
  /\ notified = FALSE

\* Collections that earlier sessions have persisted.
StoredA == NewEntry([name |-> "A"], createId("r1", 0), 0)
StoredB == NewEntry(PopupPartial, createId("r2", 0), 0)
InitCollections == { <<>>, <<StoredA>>, <<StoredA, StoredB>> }

InitStore ==
  /\ syncAvailable \in BOOLEAN
  /\ writeFaults = FALSE
  /\ store \in IF syncAvailable THEN InitCollections ELSE {<<>>}
  /\ stored \in IF store = <<>> /\ syncAvailable THEN BOOLEAN ELSE {store # <<>>}
  /\ clock = 0
  /\ calls = [p \in Callers |-> NoCall]
  /\ started = 0
  /\ RemixIdle
  /\ PopupIdle
  /\ PageIdle

\* saveComponent, updateComponent or deleteComponent is called and asks
\* chrome.storage.sync for the collection.  Calls in progress are told apart
\* by a slot; a new call takes slot 1 when it is free.
StartCall(p, kind, partial, id, patch) ==
  /\ calls[p].pc = "idle"
  /\ p = 1 \/ calls[1].pc # "idle"
  /\ started < MaxCalls
  /\ started' = started + 1
  /\ calls' = [calls EXCEPT ![p] =
                 [NoCall EXCEPT !.pc = "reading", !.kind = kind,
                                !.partial = partial, !.id = id, !.patch = patch]]
  /\ UNCHANGED <<remixVars, popupVars, pageVars, writeFaults, stored, store, clock>>

\* The collection arrives: the call computes the next collection and hands it
\* to chrome.storage.sync.set.
ReadDone(p, rand) ==
  /\ calls[p].pc = "reading"
  /\ LET c == calls[p]
         current == getAllComponents
         entry == NewEntry(c.partial, createId(rand, clock), clock)
         next == CASE c.kind = "save" -> SaveNext(current, entry)
                   [] c.kind = "update" -> UpdateAll(current, c.id, c.patch, clock)
                   [] OTHER -> DeleteAll(current, c.id)
     IN calls' = [calls EXCEPT ![p] =
                    [c EXCEPT !.pc = "writing", !.current = current,
                              !.next = next, !.now = clock,
                              !.entry = IF c.kind = "save" THEN entry ELSE <<>>]]
  /\ UNCHANGED <<remixVars, popupVars, pageVars, writeFaults, stored, store, clock, started>>

\* WriteDone that applies the call to the collection as it is when written.
WriteDoneAtomic(p, failed) ==
  /\ calls[p].pc = "writing"
  /\ failed => writeFaults
  /\ LET written == syncAvailable /\ ~failed
         c == calls[p]
         fresh == CASE c.kind = "save" -> SaveNext(getAllComponents, c.entry)
                    [] c.kind = "update" ->
                         UpdateAll(getAllComponents, c.id, c.patch, c.now)
                    [] OTHER -> DeleteAll(getAllComponents, c.id)
     IN
     /\ stored' = (stored \/ written)
     /\ store' = IF written THEN fresh ELSE store
     /\ calls' = [q \in Callers |->
                    IF q = p THEN [calls[q] EXCEPT !.pc = "done", !.failed = failed]
                    ELSE IF written /\ calls[q].pc \in {"writing", "done"}
                    THEN [calls[q] EXCEPT !.dirty = TRUE]
                    ELSE calls[q]]
  /\ UNCHANGED <<remixVars, popupVars, pageVars, writeFaults, clock, started>>

\* setSyncStorage: the set callback runs and the call returns.  The callback
\* never looks at chrome.runtime.lastError.
WriteDone(p, failed) ==
  /\ calls[p].pc = "writing"
  /\ failed => writeFaults
  /\ LET written == syncAvailable /\ ~failed IN
     /\ stored' = (stored \/ written)
     /\ store' = IF written THEN calls[p].next ELSE store
     /\ calls' = [q \in Callers |->
                    IF q = p THEN [calls[q] EXCEPT !.pc = "done", !.failed = failed]
                    ELSE IF written /\ calls[q].pc \in {"writing", "done"}
                    THEN [calls[q] EXCEPT !.dirty = TRUE]
                    ELSE calls[q]]
  /\ UNCHANGED <<remixVars, popupVars, pageVars, writeFaults, clock, started>>

\* The caller takes the result.
Return(p) ==
  /\ calls[p].pc = "done"
  /\ calls' = [calls EXCEPT ![p] = NoCall]
  /\ UNCHANGED <<remixVars, popupVars, pageVars, writeFaults, stored, store, clock, started>>

\* Time passes.
Tick ==
  /\ clock < MaxClock
  /\ clock' = clock + 1
  /\ UNCHANGED <<remixVars, popupVars, pageVars, writeFaults, stored, store, calls, started>>

NextStore ==
  \/ \E p \in Callers, partial \in Partials :
       StartCall(p, "save", partial, <<>>, <<>>)
  \/ \E p \in Callers, id \in TargetIds, patch \in Patches :
       StartCall(p, "update", <<>>, id, patch)
  \/ \E p \in Callers, id \in TargetIds : StartCall(p, "delete", <<>>, id, <<>>)
  \/ \E p \in Callers, rand \in Rands : ReadDone(p, rand)
  \/ \E p \in Callers, failed \in BOOLEAN : WriteDone(p, failed)
  \/ \E p \in Callers : Return(p)
  \/ Tick

SpecStore == InitStore /\ [][NextStore]_vars

(***************************************************************************)
(* Search and the popup's library handlers (utils/storage.js, popup.js).   *)
(* A name or a tag is a string; Chars gives its characters, and Text the   *)
(* string a sequence of characters spells.                                 *)
(***************************************************************************)
Chars(str) ==
  CASE str = "" -> <<>>
    [] str = "t1" -> <<"t", "1">>
    [] str = "t2" -> <<"t", "2">>
    [] str = "t3" -> <<"t", "3">>
    [] str = "C-X" -> <<"C", "-", "X">>
    [] str = "Untitled component" ->
         <<"U", "n", "t", "i", "t", "l", "e", "d", " ",
           "c", "o", "m", "p", "o", "n", "e", "n", "t">>
    [] OTHER -> <<str>>

Text(chars) ==
  CHOOSE str \in { "", "A", "B", "C", "X", "t1", "t2", "t3", "C-X", "-",
                   "Untitled component" } : Chars(str) = chars

\* String.prototype.toLowerCase, one character.
ToLowerChar(ch) ==
  LET UpperCase ==
        <<"A", "B", "C", "D", "E", "F", "G", "H", "I", "J", "K", "L", "M",
          "N", "O", "P", "Q", "R", "S", "T", "U", "V", "W", "X", "Y", "Z">>
      LowerCase ==
        <<"a", "b", "c", "d", "e", "f", "g", "h", "i", "j", "k", "l", "m",
          "n", "o", "p", "q", "r", "s", "t", "u", "v", "w", "x", "y", "z">>
  IN IF \E i \in 1..Len(UpperCase) : UpperCase[i] = ch
     THEN LowerCase[CHOOSE i \in 1..Len(UpperCase) : UpperCase[i] = ch]
     ELSE ch

\* String.prototype.toLowerCase
ToLowerCase(text) == [i \in 1..Len(text) |-> ToLowerChar(text[i])]

\* Array.prototype.join over the characters of the items.
RECURSIVE Join(_, _)
Join(items, sep) ==
  IF items = <<>> THEN <<>>
  ELSE IF Len(items) = 1 THEN Chars(items[1])
  ELSE Chars(items[1]) \o sep \o Join(Tail(items), sep)

\* String.prototype.includes
StringIncludes(text, q) ==
  \E i \in 0..(Len(text) - Len(q)) : SubSeq(text, i + 1, i + Len(q)) = q

\* searchComponents that compares without lower-casing.
searchComponentsCaseSensitive(all, query) ==
  IF query = <<>> THEN all
  ELSE SelectSeq(all, LAMBDA c :
         StringIncludes(Chars(c.name) \o <<" ">> \o Join(c.tags, <<" ">>),
                        query))

\* searchComponents, given the collection getAllComponents returned; the
\* haystack is `${c.name} ${(c.tags || []).join(" ")}`.toLowerCase().
searchComponents(all, query) ==
  IF query = <<>> THEN all
  ELSE SelectSeq(all, LAMBDA c :
         StringIncludes(
           ToLowerCase(Chars(c.name) \o <<" ">> \o Join(c.tags, <<" ">>)),
           ToLowerCase(query)))

Queries ==
  { <<>>, <<"b">>, <<"T", "1">>, <<" ">>, <<"B", "t", "1">>,
    <<"b", " ", "t">>, <<"z">> }

\* String.prototype.split: the pieces of the text between the separators.
RECURSIVE Split(_, _)
Split(text, sep) ==
  IF \E i \in 1..Len(text) : text[i] = sep
  THEN LET i == CHOOSE k \in 1..Len(text) :
                  /\ text[k] = sep
                  /\ \A m \in 1..(k - 1) : text[m] # sep
       IN <<SubSeq(text, 1, i - 1)>> \o Split(SubSeq(text, i + 1, Len(text)), sep)
  ELSE <<text>>

\* (tagsInput || "").split(",").map((t) => t.trim()).filter(Boolean)
ParseTags(input) ==
  LET pieces == Split(IF input.null THEN <<>> ELSE input.text, ",")
      trimmed == [i \in 1..Len(pieces) |-> Trim(pieces[i])]
      kept == SelectSeq(trimmed, LAMBDA t : t # <<>>)
  IN [i \in 1..Len(kept) |-> Text(kept[i])]

\* What prompt() returns: null when cancelled, else the text typed.
NameInputs ==
  { [null |-> TRUE, text |-> <<>>], [null |-> FALSE, text |-> <<" ">>],
    [null |-> FALSE, text |-> <<" ", "C", " ">>] }

TagInputs ==
  { [null |-> TRUE, text |-> <<>>],
    [null |-> FALSE, text |-> <<"t", "3", ",", " ">>] }

\* !name || !name.trim()
NameBlank(input) == input.null \/ Trim(input.text) = <<>>

\* The texts popup.js passes to showToast.
Toast(kind, name) ==
  CASE kind = "noLatest" ->
         <<"No extracted component available yet. Extract an element first.">>
    [] kind = "wait" -> <<"Please wait, operation in progress...">>
    [] kind = "emptyName" -> <<"Component name cannot be empty.">>
    [] kind = "saved" -> <<"Component \"", name, "\" saved to library.">>
    [] kind = "saveFailed" -> <<"Failed to save component. Please try again.">>
    [] kind = "updated" -> <<"Component updated.">>
    [] kind = "updateFailed" ->
         <<"Failed to update component. Please try again.">>
    [] kind = "deleted" -> <<"\"", name, "\" deleted.">>
    [] kind = "deleteFailed" ->
         <<"Failed to delete component. Please try again.">>
    [] kind = "copied" ->
         <<"Code copied to clipboard. Respect copyrights when reusing ",
           "extracted components.">>
    [] kind = "copyFailed" ->
         <<"Clipboard copy failed. Try downloading instead.">>
    [] kind = "downloaded" ->
         <<"Downloaded ", name, ". Respect copyrights when reusing.">>
    [] kind = "invalidOption" ->
         <<"Invalid option. Use \"c\" for copy or \"d\" for download.">>
    [] kind = "noTab" ->
         <<"No active tab found. Please reload and try again.">>
    [] kind = "notAvailable" ->
         <<"Extraction is not available on this page. Try a regular website.">>
    [] kind = "commFailed" ->
         <<"Failed to communicate with page. Try reloading the page.">>
    [] kind = "toggleFailed" -> <<"Failed to toggle extraction mode.">>

(***************************************************************************)
(* Code generation (utils/codegen.js).  Generated code is the sequence of   *)
(* the pieces of its template: fixed text, and the name, markup and style   *)
(* put between them.  A name is a sequence of characters.                   *)
(***************************************************************************)
\* A character that /[^a-zA-Z0-9]/ does not match.
IsAlnum(ch) ==
  \/ ch \in {"0", "1", "2", "3", "4", "5", "6", "7", "8", "9"}
  \/ ToLowerChar(ch) # ch
  \/ ch \in {"a", "b", "c", "d", "e", "f", "g", "h", "i", "j", "k", "l", "m",
              "n", "o", "p", "q", "r", "s", "t", "u", "v", "w", "x", "y", "z"}

MyComponent == <<"M", "y", "C", "o", "m", "p", "o", "n", "e", "n", "t">>

\* (name || "MyComponent").replace(/[^a-zA-Z0-9]/g, "") || "MyComponent"
safeName(name) ==
  LET kept == SelectSeq(IF name = <<>> THEN MyComponent ELSE name, IsAlnum)
  IN IF kept = <<>> THEN MyComponent ELSE kept

\* variant.<field> || ""
VariantField(variant, field) ==
  IF field \in DOMAIN variant THEN variant[field] ELSE ""

\* toReactComponent; tryPrettier re-arranges white space at most.
toReactComponent(variant, name) ==
  <<"import React from 'react'; import './", safeName(name),
    ".css'; export function ", safeName(name), "(props) { return ( <> ",
    VariantField(variant, "html"),
    " </> ); } // CSS for this component (place in ", safeName(name),
    ".css) /* ", VariantField(variant, "css"), " */">>

\* toVueSFC
toVueSFC(variant, name) ==
  <<"<template> ", VariantField(variant, "html"),
    " </template> <script setup> </script> <style scoped> ",
    VariantField(variant, "css"), " </style>">>

\* toHtmlCss
toHtmlCss(variant, name) ==
  <<"<!-- ", name, " --> <style> ", VariantField(variant, "css"),
    " </style> ", VariantField(variant, "html")>>

\* generateCodeForFramework
generateCodeForFramework(framework, variant, name) ==
  IF framework = "vue" THEN toVueSFC(variant, name)
  ELSE IF framework = "html" THEN toHtmlCss(variant, name)
  ELSE toReactComponent(variant, name)

\* The CRE_LATEST_COMPONENT payload the popup holds.
LatestPayload ==
  [original |-> [html |-> "<p/>", css |-> ".p{}"],
   variants |-> <<NormalizeVariant(VA)>>]

\* The partial record the save handler builds: the code is generated from
\* the first variant when there is one, else from the original.
SavePartial(name, tags) ==
  LET base == latestComponentPayload.original
      variants == latestComponentPayload.variants
      preferredVariant == IF variants # <<>> THEN variants[1]
                          ELSE [html |-> base.html, css |-> base.css]
  IN [name |-> name,
      tags |-> tags,
      originalHTML |-> base.html,
      originalCSS |-> base.css,
      remixedVariants |-> variants,
      generatedCode |-> generateCodeForFramework(defaultFramework,
                                                 preferredVariant, Chars(name)),
      framework |-> defaultFramework]

\* { ...a, ...b }
Spread(a, b) ==
  [f \in DOMAIN a \cup DOMAIN b |-> IF f \in DOMAIN b THEN b[f] ELSE a[f]]

\* A library store call of the popup starts in slot 1.
PopupCall(kind, partial, id, patch) ==
  /\ started' = started + 1
  /\ calls' = [calls EXCEPT ![1] =
                 [NoCall EXCEPT !.pc = "reading", !.kind = kind,
                                !.partial = partial, !.id = id, !.patch = patch]]

\* The popup runs where chrome.storage.sync exists; an earlier session may
\* have left a collection and an extracted component.
InitLibrary ==
  /\ syncAvailable = TRUE
  /\ writeFaults \in BOOLEAN
  /\ store \in InitCollections
  /\ stored = (store # <<>>)
  /\ clock = 0
  /\ calls = [p \in Callers |-> NoCall]
  /\ started = 0
  /\ RemixIdle
  /\ PageIdle
  /\ allComponents = <<>>
  /\ toast = <<>>
  /\ isLoading = FALSE
  /\ popupPc = "closed"
  /\ popupComp = <<>>
  /\ latestComponentPayload \in { <<>>, LatestPayload }
  /\ searchResult = NoSearch
  /\ defaultFramework = "react"
  /\ toggle = NoToggle
  /\ exported = NoExport

\* DOMContentLoaded: loadComponentsAndRender asks for the collection.
PopupOpen ==
  /\ popupPc = "closed"
  /\ popupPc' = "loading"
  /\ isLoading' = TRUE
  /\ UNCHANGED <<remixVars, storeVars, pageVars, allComponents, toast,
                 popupComp, latestComponentPayload, searchResult>>
  /\ UNCHANGED <<defaultFramework, toggle, exported>>

\* loadComponentsAndRender: the collection arrives.
PopupLoaded ==
  /\ popupPc = "loading"
  /\ allComponents' = getAllComponents
  /\ isLoading' = FALSE
  /\ popupPc' = "idle"
  /\ UNCHANGED <<remixVars, storeVars, pageVars, toast, popupComp,
                 latestComponentPayload, searchResult>>
  /\ UNCHANGED <<defaultFramework, toggle, exported>>

\* searchComponents(query) is called and answered.
Search(query) ==
  /\ started < MaxCalls
  /\ started' = started + 1
  /\ searchResult' =
       [query |-> query, all |-> getAllComponents,
        result |-> searchComponents(getAllComponents, query),
        seq |-> started']
  /\ UNCHANGED <<remixVars, pageVars, writeFaults, stored, store, clock, calls,
                 allComponents, toast, isLoading, popupPc, popupComp,
                 latestComponentPayload>>
  /\ UNCHANGED <<defaultFramework, toggle, exported>>

\* The "Save latest component" button is clicked and the two prompts are
\* answered.
PopupSaveLatest(nameInput, tagsInput) ==
  /\ popupPc \in {"idle", "loading", "saving"}
  /\ started < MaxCalls
  /\ IF latestComponentPayload = <<>>
     THEN /\ toast' = Toast("noLatest", "")
          /\ UNCHANGED <<storeVars, isLoading, popupPc>>
     ELSE IF isLoading
     THEN /\ toast' = Toast("wait", "")
          /\ UNCHANGED <<storeVars, isLoading, popupPc>>
     ELSE IF NameBlank(nameInput)
     THEN /\ toast' = IF nameInput.null THEN toast ELSE Toast("emptyName", "")
          /\ UNCHANGED <<storeVars, isLoading, popupPc>>
     ELSE /\ isLoading' = TRUE
          /\ popupPc' = "saving"
          /\ PopupCall("save",
                       SavePartial(Text(Trim(nameInput.text)),
                                   ParseTags(tagsInput)), <<>>, <<>>)
          /\ UNCHANGED <<toast, writeFaults, stored, store, clock>>
  /\ UNCHANGED <<remixVars, pageVars, allComponents, popupComp,
                 latestComponentPayload, searchResult>>
  /\ UNCHANGED <<defaultFramework, toggle, exported>>

\* saveComponent has returned to the save handler.
PopupSaved ==
  /\ popupPc = "saving"
  /\ calls[1].pc = "done"
  /\ allComponents' = Append(allComponents, calls[1].entry)
  /\ toast' = Toast("saved", calls[1].entry.name)
  /\ isLoading' = FALSE
  /\ popupPc' = "idle"
  /\ calls' = [calls EXCEPT ![1] = NoCall]
  /\ UNCHANGED <<remixVars, pageVars, writeFaults, stored, store, clock,
                 started, popupComp, latestComponentPayload, searchResult>>
  /\ UNCHANGED <<defaultFramework, toggle, exported>>

\* The Edit button of the i-th card is clicked and the two prompts are
\* answered.
PopupEdit(i, nameInput, tagsInput) ==
  /\ popupPc = "idle"
  /\ started < MaxCalls
  /\ i \in 1..Len(allComponents)
  /\ LET comp == allComponents[i]
         updated == [comp EXCEPT !.name = Text(Trim(nameInput.text)),
                                 !.tags = ParseTags(tagsInput)]
     IN IF NameBlank(nameInput)
        THEN /\ toast' = IF nameInput.null THEN toast ELSE Toast("emptyName", "")
             /\ UNCHANGED <<storeVars, popupPc, popupComp>>
        ELSE /\ popupPc' = "editing"
             /\ popupComp' = [comp |-> comp, updated |-> updated]
             /\ PopupCall("update", <<>>, updated.id, updated)
             /\ UNCHANGED <<toast, writeFaults, stored, store, clock>>
  /\ UNCHANGED <<remixVars, pageVars, allComponents, isLoading,
                 latestComponentPayload, searchResult>>
  /\ UNCHANGED <<defaultFramework, toggle, exported>>

\* updateComponent has returned to the edit handler.
PopupEdited ==
  /\ popupPc = "editing"
  /\ calls[1].pc = "done"
  /\ LET found == { k \in 1..Len(allComponents) :
                      allComponents[k].id = popupComp.comp.id }
         idx == CHOOSE k \in found : \A m \in found : k <= m
     IN allComponents' =
          IF found = {} THEN allComponents
          ELSE [allComponents EXCEPT
                  ![idx] = Spread(allComponents[idx], popupComp.updated)]
  /\ toast' = Toast("updated", "")
  /\ popupPc' = "idle"
  /\ calls' = [calls EXCEPT ![1] = NoCall]
  /\ UNCHANGED <<remixVars, pageVars, writeFaults, stored, store, clock,
                 started, isLoading, popupComp, latestComponentPayload,
                 searchResult>>
  /\ UNCHANGED <<defaultFramework, toggle, exported>>

\* The Delete button of the i-th card is clicked and the confirmation is
\* answered.
PopupDelete(i, confirmed) ==
  /\ popupPc = "idle"
  /\ started < MaxCalls
  /\ i \in 1..Len(allComponents)
  /\ IF ~confirmed
     THEN UNCHANGED <<storeVars, popupPc, popupComp>>
     ELSE /\ popupPc' = "deleting"
          /\ popupComp' = [comp |-> allComponents[i],
                           updated |-> allComponents[i]]
          /\ PopupCall("delete", <<>>, allComponents[i].id, <<>>)
          /\ UNCHANGED <<writeFaults, stored, store, clock>>
  /\ UNCHANGED <<remixVars, pageVars, allComponents, toast, isLoading,
                 latestComponentPayload, searchResult>>
  /\ UNCHANGED <<defaultFramework, toggle, exported>>

\* deleteComponent has returned to the delete handler.
PopupDeleted ==
  /\ popupPc = "deleting"
  /\ calls[1].pc = "done"
  /\ allComponents' =
       SelectSeq(allComponents, LAMBDA c : c.id # popupComp.comp.id)
  /\ toast' = Toast("deleted", popupComp.comp.name)
  /\ popupPc' = "idle"
  /\ calls' = [calls EXCEPT ![1] = NoCall]
  /\ UNCHANGED <<remixVars, pageVars, writeFaults, stored, store, clock,
                 started, isLoading, popupComp, latestComponentPayload,
                 searchResult>>
  /\ UNCHANGED <<defaultFramework, toggle, exported>>

NextLibrary ==
  \/ PopupOpen
  \/ PopupLoaded
  \/ \E query \in Queries : Search(query)
  \/ \E nameInput \in NameInputs, tagsInput \in TagInputs :
       PopupSaveLatest(nameInput, tagsInput)
  \/ PopupSaved
  \/ \E i \in 1..Len(allComponents), nameInput \in NameInputs, tagsInput \in TagInputs :
       PopupEdit(i, nameInput, tagsInput)
  \/ PopupEdited
  \/ \E i \in 1..Len(allComponents), confirmed \in BOOLEAN : PopupDelete(i, confirmed)
  \/ PopupDeleted
  \/ \E rand \in Rands : ReadDone(1, rand)
  \/ \E failed \in BOOLEAN : WriteDone(1, failed)
  \/ Tick

SpecLibrary == InitLibrary /\ [][NextLibrary]_vars

(***************************************************************************)
(* The content script (content.js): extraction of a clicked element.       *)
(* A node is a text node or an element with a namespace, a tag, a list of  *)
(* attributes and a list of child nodes.  An attribute name is a sequence  *)
(* of tokens, "data-" being one token; an attribute value is a sequence of *)
(* tokens, for class the class names.  A style property name is a sequence *)
(* of tokens in which every upper-case letter is a token of its own.       *)
(***************************************************************************)
TextNode(text) == [type |-> "text", text |-> text]

Attr(name, value) == [name |-> name, value |-> value]

Element(ns, tag, attrs, children) ==
  [type |-> "element", ns |-> ns, tag |-> tag, attrs |-> attrs,
   children |-> children]

\* An event.target that is not an element of the page: "null" for none,
\* "object" for one without cloneNode, "overlay" for the hover overlay,
\* "sidebar" for a node of the sidebar.
Target(type) == [type |-> type]

\* !el || !el.cloneNode
NotCopyable(el) == el.type \in {"null", "object"}

IsId(attr) == attr.name = <<"id">>
IsClass(attr) == attr.name = <<"class">>
\* attr.name.startsWith("data-")
IsData(attr) == attr.name # <<>> /\ attr.name[1] = "data-"

\* Array.from(node.classList || [])
ClassList(node) ==
  IF \E i \in 1..Len(node.attrs) : IsClass(node.attrs[i])
  THEN (CHOOSE a \in { node.attrs[i] : i \in 1..Len(node.attrs) } :
          IsClass(a)).value
  ELSE <<>>

\* node.className = "cre-component".  On an SVG element className is a
\* read-only SVGAnimatedString and the assignment of a non-strict script is
\* ignored.
SetClassName(node, name) ==
  IF node.ns = "svg" THEN node
  ELSE [node EXCEPT !.attrs =
          [i \in 1..Len(node.attrs) |->
             IF IsClass(node.attrs[i]) THEN Attr(<<"class">>, <<name>>)
             ELSE node.attrs[i]]]

\* cleanElementAttributes, as the tree it leaves.
RECURSIVE cleanElementAttributes(_)
cleanElementAttributes(node) ==
  IF node.type # "element" THEN node
  ELSE LET noId == [node EXCEPT
                      !.attrs = SelectSeq(node.attrs, LAMBDA a : ~IsId(a))]
           classed == IF ClassList(noId) # <<>>
                      THEN SetClassName(noId, "cre-component") ELSE noId
           noData == [classed EXCEPT
                        !.attrs = SelectSeq(classed.attrs, LAMBDA a : ~IsData(a))]
       IN [noData EXCEPT !.children =
             [i \in 1..Len(noData.children) |->
                cleanElementAttributes(noData.children[i])]]

\* Concatenation of a sequence of token sequences.
RECURSIVE Flatten(_)
Flatten(seqs) == IF seqs = <<>> THEN <<>> ELSE Head(seqs) \o Flatten(Tail(seqs))

\* outerHTML
RECURSIVE OuterHTML(_)
OuterHTML(node) ==
  IF node.type # "element" THEN <<node.text>>
  ELSE <<"<", node.tag>>
       \o Flatten([i \in 1..Len(node.attrs) |->
                     <<" ">> \o node.attrs[i].name \o <<"=\"">>
                     \o node.attrs[i].value \o <<"\"">>])
       \o <<">">>
       \o Flatten([i \in 1..Len(node.children) |-> OuterHTML(node.children[i])])
       \o <<"</", node.tag, ">">>

importantProps ==
  << <<"display">>, <<"position">>, <<"top">>, <<"right">>, <<"bottom">>,
     <<"left">>, <<"width">>, <<"height">>, <<"min", "W", "idth">>,
     <<"min", "H", "eight">>, <<"max", "W", "idth">>, <<"max", "H", "eight">>,
     <<"flex", "D", "irection">>, <<"flex", "W", "rap">>,
     <<"justify", "C", "ontent">>, <<"align", "I", "tems">>, <<"gap">>,
     <<"margin">>, <<"margin", "T", "op">>, <<"margin", "R", "ight">>,
     <<"margin", "B", "ottom">>, <<"margin", "L", "eft">>, <<"padding">>,
     <<"padding", "T", "op">>, <<"padding", "R", "ight">>,
     <<"padding", "B", "ottom">>, <<"padding", "L", "eft">>,
     <<"background", "C", "olor">>, <<"color">>, <<"border">>,
     <<"border", "T", "op">>, <<"border", "R", "ight">>,
     <<"border", "B", "ottom">>, <<"border", "L", "eft">>,
     <<"border", "R", "adius">>,
     <<"border", "T", "op", "L", "eft", "R", "adius">>,
     <<"border", "T", "op", "R", "ight", "R", "adius">>,
     <<"border", "B", "ottom", "L", "eft", "R", "adius">>,
     <<"border", "B", "ottom", "R", "ight", "R", "adius">>,
     <<"box", "S", "hadow">>, <<"opacity">>, <<"font", "F", "amily">>,
     <<"font", "S", "ize">>, <<"font", "W", "eight">>, <<"font", "S", "tyle">>,
     <<"line", "H", "eight">>, <<"text", "A", "lign">>,
     <<"text", "D", "ecoration">>, <<"letter", "S", "pacing">>,
     <<"overflow">>, <<"overflow", "X">>, <<"overflow", "Y">>, <<"cursor">>,
     <<"z", "I", "ndex">> >>

\* prop.replace(/[A-Z]/g, (m) => "-" + m.toLowerCase())
cssName(prop) ==
  Flatten([i \in 1..Len(prop) |->
             IF ToLowerChar(prop[i]) # prop[i]
             THEN <<"-", ToLowerChar(prop[i])>> ELSE <<prop[i]>>])

\* The values the code skips.
Skipped(value) ==
  \/ value = ""
  \/ value = "0px"
  \/ value = "0"
  \/ value = "none"
  \/ value = "rgba(0, 0, 0, 0)"
  \/ value = "transparent"
  \/ value = "normal"
  \/ value = "auto"

\* buildComputedCssForElement that keeps "auto".
buildComputedCssKeepAuto(computed) ==
  LET kept == SelectSeq(importantProps, LAMBDA prop :
                /\ Has(computed, prop)
                /\ (~Skipped(computed[prop]) \/ computed[prop] = "auto"))
  IN IF kept = <<>> THEN EmptyCss
     ELSE [selector |-> ".cre-component",
           lines |-> [i \in 1..Len(kept) |->
                        [name |-> cssName(kept[i]),
                         value |-> computed[kept[i]]]]]

\* buildComputedCssForElement, given the computed style of the element; a
\* property the style does not have reads as undefined.  A line
\* "  name: value;" of the rule is a record of the name and the value.
buildComputedCssForElement(computed) ==
  LET kept == SelectSeq(importantProps, LAMBDA prop :
                Has(computed, prop) /\ ~Skipped(computed[prop]))
  IN IF kept = <<>> THEN EmptyCss
     ELSE [selector |-> ".cre-component",
           lines |-> [i \in 1..Len(kept) |->
                        [name |-> cssName(kept[i]),
                         value |-> computed[kept[i]]]]]

ErrInvalidElement == <<"Invalid element provided for extraction">>

\* extractElement that copies whatever it is given.
extractElementUnchecked(el) ==
  IF NotCopyable(el)
  THEN [kind |-> "ok", el |-> el, source |-> el, cloned |-> TextNode(""),
        html |-> <<>>, css |-> EmptyCss]
  ELSE [kind |-> "ok", el |-> el, source |-> el,
        cloned |-> cleanElementAttributes(el.tree),
        html |-> OuterHTML(cleanElementAttributes(el.tree)),
        css |-> buildComputedCssForElement(el.style)]

\* extractElement: what it throws or returns, the cleaned copy, and the
\* element as the call leaves it.
extractElement(el) ==
  IF NotCopyable(el)
  THEN [kind |-> "thrown", el |-> el, error |-> ErrInvalidElement]
  ELSE [kind |-> "ok", el |-> el, source |-> el,
        cloned |-> cleanElementAttributes(el.tree),
        html |-> OuterHTML(cleanElementAttributes(el.tree)),
        css |-> buildComputedCssForElement(el.style)]

AlertExtractFailed == "Failed to extract component. Please try again."

\* Element trees of the page.
Trees ==
  LET Hello == TextNode("hi")
      Plain == Element("html", "p", <<>>, <<Hello>>)
      Leaf ==
        Element("html", "span",
                <<Attr(<<"id">>, <<"a">>), Attr(<<"class">>, <<"x", "y">>),
                  Attr(<<"data-", "k">>, <<"v">>), Attr(<<"title">>, <<"t">>)>>,
                <<Hello>>)
      Bare ==
        Element("html", "object",
                <<Attr(<<"class">>, <<>>), Attr(<<"data">>, <<"d">>)>>, <<>>)
      Icon ==
        Element("svg", "svg",
                <<Attr(<<"class">>, <<"icon">>), Attr(<<"id">>, <<"i">>)>>, <<>>)
      Nested ==
        Element("html", "div", <<Attr(<<"class">>, <<"card">>)>>,
                <<Hello, Leaf,
                  Element("html", "ul", <<Attr(<<"data-", "z">>, <<>>)>>,
                          <<Leaf, Bare>>)>>)
      WithIcon == Element("html", "div", <<>>, <<Icon, Leaf>>)
  IN { Plain, Leaf, Bare, Icon, Nested, WithIcon }

\* Computed styles: three properties take every value the code tells
\* apart, or are missing from the style, and the others are "normal".
Styles ==
  LET Undefined == "<undefined>"
      StyleValues ==
        { "", "0px", "0", "none", "rgba(0, 0, 0, 0)", "transparent",
          "normal", "auto", "block", "10px" }
      VariedProps ==
        { <<"display">>, <<"margin", "T", "op">>, <<"z", "I", "ndex">> }
      PropSet == { importantProps[i] : i \in 1..Len(importantProps) }
      StyleOf(assign) ==
        [prop \in PropSet \ { p \in VariedProps : assign[p] = Undefined } |->
           IF prop \in VariedProps THEN assign[prop] ELSE "normal"]
  IN { StyleOf(assign) :
         assign \in { a \in [VariedProps -> StyleValues \cup {Undefined}] :
                        a[<<"z", "I", "ndex">>] \in {"auto", "10px"} } }

\* The elements a page may have under the pointer: every tree with one
\* style, and one tree with every style.
PageElements ==
  LET PlainStyle ==
        [prop \in { importantProps[i] : i \in 1..Len(importantProps) } |->
           IF prop \in { <<"display">>, <<"margin", "T", "op">>,
                         <<"z", "I", "ndex">> }
           THEN "block" ELSE "normal"]
      Plain == Element("html", "p", <<>>, <<TextNode("hi")>>)
  IN { [type |-> "element", tree |-> t, style |-> PlainStyle] : t \in Trees }
     \cup { [type |-> "element", tree |-> Plain, style |-> s] : s \in Styles }

\* The content script is injected into a page; the user will click one of
\* its elements.
InitPage ==
  /\ writeFaults = FALSE
  /\ syncAvailable = TRUE
  /\ StoreIdle
  /\ RemixIdle
  /\ PopupIdle
  /\ isExtracting = FALSE
  /\ hoverOverlay = "none"
  /\ sidebarEl = NoComponent
  /\ lastExtractedComponent = NoComponent
  /\ alertText = ""
  /\ pageDoc \in PageElements
  /\ extracted = NoExtract
  /\ clicks = 0
  /\ listeners = NoListeners
  /\ overlayNodes = 0
  /\ rendered = NoRender
  /\ notification = NoNotification
  /\ remixes = <<>>

\* document.addEventListener(type, handler, true): a handler that is
\* registered already is not registered again.
AddEventListener(ls, type) == [ls EXCEPT ![type] = IF @ = 0 THEN 1 ELSE @]

\* document.removeEventListener(type, handler, true)
RemoveEventListener(ls, type) == [ls EXCEPT ![type] = IF @ = 0 THEN 0 ELSE @ - 1]

\* startExtraction that registers its handlers whatever the mode is.
StartExtractionUnguarded ==
  /\ isExtracting' = TRUE
  /\ hoverOverlay' = "hidden"
  /\ overlayNodes' = overlayNodes + 1
  /\ listeners' = [mousemove |-> 1, click |-> 1]

\* startExtraction, with ensureHoverOverlay.
StartExtractionEffect ==
  IF isExtracting
  THEN UNCHANGED <<isExtracting, hoverOverlay, overlayNodes, listeners>>
  ELSE /\ isExtracting' = TRUE
       /\ hoverOverlay' = IF hoverOverlay # "none" THEN hoverOverlay ELSE "hidden"
       /\ overlayNodes' = IF hoverOverlay # "none" THEN overlayNodes
                          ELSE overlayNodes + 1
       /\ listeners' = AddEventListener(AddEventListener(listeners, "mousemove"),
                                        "click")

\* The listener's START_EXTRACTION branch.
StartExtraction ==
  /\ clicks < MaxEvents
  /\ clicks' = clicks + 1
  /\ StartExtractionEffect
  /\ UNCHANGED <<remixVars, storeVars, popupVars, sidebarEl,
                 lastExtractedComponent, alertText, pageDoc, extracted,
                 rendered, notification, remixes>>

\* stopExtraction that leaves the overlay in the page.
StopExtractionKeepOverlay ==
  IF ~isExtracting
  THEN UNCHANGED <<isExtracting, hoverOverlay, overlayNodes, listeners>>
  ELSE /\ isExtracting' = FALSE
       /\ UNCHANGED <<hoverOverlay, overlayNodes>>
       /\ listeners' = RemoveEventListener(
                          RemoveEventListener(listeners, "mousemove"), "click")

\* stopExtraction, with removeHoverOverlay.
StopExtractionEffect ==
  IF ~isExtracting
  THEN UNCHANGED <<isExtracting, hoverOverlay, overlayNodes, listeners>>
  ELSE /\ isExtracting' = FALSE
       /\ hoverOverlay' = "none"
       /\ overlayNodes' = IF hoverOverlay # "none" THEN overlayNodes - 1
                          ELSE overlayNodes
       /\ listeners' = RemoveEventListener(
                          RemoveEventListener(listeners, "mousemove"), "click")

\* The listener's STOP_EXTRACTION branch.
StopExtraction ==
  /\ clicks < MaxEvents
  /\ clicks' = clicks + 1
  /\ StopExtractionEffect
  /\ UNCHANGED <<remixVars, storeVars, popupVars, sidebarEl,
                 lastExtractedComponent, alertText, pageDoc, extracted,
                 rendered, notification, remixes>>

\* handleMouseMove, when a mousemove event reaches document; a target
\* without getBoundingClientRect makes it throw into its own catch.
HandleMouseMove(target) ==
  /\ clicks < MaxEvents
  /\ clicks' = clicks + 1
  /\ target.type = "sidebar" => ~sidebarEl.none
  /\ target.type = "overlay" => hoverOverlay # "none"
  /\ hoverOverlay' =
       IF \/ listeners.mousemove = 0
          \/ ~isExtracting
          \/ hoverOverlay = "none"
          \/ target.type \in {"null", "sidebar", "overlay", "object"}
       THEN hoverOverlay ELSE "shown"
  /\ UNCHANGED <<remixVars, storeVars, popupVars, isExtracting, sidebarEl,
                 lastExtractedComponent, alertText, pageDoc, extracted,
                 listeners, overlayNodes, rendered, notification, remixes>>

\* removeSidebar takes the sidebar out of the page: the requests its remix
\* button sent belong to no sidebar of the page any more.
Detach(rs) == [k \in 1..Len(rs) |-> [rs[k] EXCEPT !.live = FALSE]]

\* The component extractElement returned.
ComponentOf(result) == [html |-> result.html, css |-> result.css, none |-> FALSE]

\* handleClick
HandleClick(target) ==
  /\ clicks < MaxEvents
  /\ clicks' = clicks + 1
  /\ target.type = "sidebar" => ~sidebarEl.none
  /\ target.type = "overlay" => hoverOverlay # "none"
  /\ IF \/ listeners.click = 0
        \/ ~isExtracting
        \/ target.type \in {"null", "sidebar", "overlay"}
     THEN UNCHANGED <<isExtracting, hoverOverlay, overlayNodes, listeners,
                      sidebarEl, lastExtractedComponent, alertText, pageDoc,
                      extracted, rendered, remixes>>
     ELSE LET result == extractElement(target) IN
          /\ StopExtractionEffect
          /\ extracted' = Spread(result, [seq |-> clicks', by |-> "click"])
          /\ IF result.kind = "ok"
             THEN /\ pageDoc' = result.source
                  /\ lastExtractedComponent' = ComponentOf(result)
                  /\ sidebarEl' = ComponentOf(result)
                  /\ rendered' = NoRender
                  /\ remixes' = Detach(remixes)
                  /\ UNCHANGED alertText
             ELSE /\ alertText' = AlertExtractFailed
                  /\ UNCHANGED <<pageDoc, lastExtractedComponent, sidebarEl,
                                 rendered, remixes>>
  /\ UNCHANGED <<remixVars, storeVars, popupVars, notification>>

\* extractElement is called with an element that is absent or cannot be
\* copied, outside the click handler.
ExtractCall(el) ==
  /\ clicks < MaxEvents
  /\ clicks' = clicks + 1
  /\ extracted' = Spread(extractElement(el), [seq |-> clicks', by |-> "call"])
  /\ pageDoc' = IF extracted'.kind = "ok" THEN extracted'.source ELSE pageDoc
  /\ UNCHANGED <<remixVars, storeVars, popupVars, isExtracting, hoverOverlay,
                 sidebarEl, lastExtractedComponent, alertText, listeners,
                 overlayNodes, rendered, notification, remixes>>

\* The sidebar's close button: removeSidebar.
CloseSidebar ==
  /\ clicks < MaxEvents
  /\ clicks' = clicks + 1
  /\ ~sidebarEl.none
  /\ sidebarEl' = NoComponent
  /\ rendered' = NoRender
  /\ remixes' = Detach(remixes)
  /\ UNCHANGED <<remixVars, storeVars, popupVars, isExtracting, hoverOverlay,
                 lastExtractedComponent, alertText, pageDoc, extracted,
                 listeners, overlayNodes, notification>>

ClickTargets ==
  { pageDoc, Target("null"), Target("object"), Target("overlay"),
    Target("sidebar") }

NextPage ==
  \/ StartExtraction
  \/ StopExtraction
  \/ \E target \in ClickTargets : HandleClick(target)
  \/ \E target \in ClickTargets : HandleMouseMove(target)
  \/ \E el \in {pageDoc, Target("null"), Target("object")} : ExtractCall(el)
  \/ CloseSidebar

SpecPage == InitPage /\ [][NextPage]_vars

NextRemix ==
  \/ \E input \in PromptInputs : SidebarRemixClick(input)
  \/ \E m \in DirectMessages : SendDirect(m)
  \/ BgOnMessage
  \/ BgKeyRead
  \/ \E failed \in BOOLEAN : BgSetKeyDone(failed)
  \/ AiFetch
  \/ \E o \in Outcomes : FetchSettle(o)
  \/ WorkerRestart
  \/ SidebarOnResponse
  \/ DirectOnResponse
  \/ \E input \in KeyInputs, failed \in BOOLEAN : PopupSaveSettings(input, failed)

SpecRemix == InitRemix /\ [][NextRemix]_vars


(***************************************************************************)
(* Properties of the remix request (checked under SpecRemix).              *)
(***************************************************************************)
\* The listener has answered an AI_REMIX request whose fetch returned a
\* success status and a non-empty completion text.
RemixSettledWithText ==
  /\ pc = "done"
  /\ msg.type = "AI_REMIX"
  /\ outcome.kind = "ok"
  /\ outcome.hasContent
  /\ outcome.content # <<>>

\* The text is the serialisation of v, with nothing but whitespace around it.
OnlyValue(text, v) ==
  \E k \in 1..Len(text) :
    /\ text[k] = ValChunk(v)
    /\ \A m \in 1..Len(text) : m # k => text[m].k = "ws"

ValuesIn(text) == { text[k].v : k \in { m \in 1..Len(text) : text[m].k = "val" } }

\* The text between two consecutive fences is the serialisation of v.
InSomeFence(text, v) ==
  \E i, j \in 1..Len(text) :
    /\ i < j
    /\ text[i].k = "fence"
    /\ text[j].k = "fence"
    /\ \A b \in (i + 1)..(j - 1) : text[b].k # "fence"
    /\ OnlyValue(SubSeq(text, i + 1, j - 1), v)

\* The first brace-delimited object of the text is the serialisation of v.
FirstObject(text, v) ==
  \E i \in 1..Len(text) :
    /\ text[i] = ValChunk(v)
    /\ v.t = "object"
    /\ \A a \in 1..(i - 1) :
         /\ text[a].k # "junk"
         /\ text[a].k = "val" => text[a].v.t # "object"

\* The text between the first fence tagged json (in any case) and the next
\* fence after it is the serialisation of v.
InFirstJsonFence(text, v) ==
  \E i, j \in 1..Len(text) :
    /\ i < j
    /\ IsJsonFence(text[i])
    /\ \A a \in 1..(i - 1) : ~IsJsonFence(text[a])
    /\ text[j].k = "fence"
    /\ \A b \in (i + 1)..(j - 1) : text[b].k # "fence"
    /\ OnlyValue(SubSeq(text, i + 1, j - 1), v)

\* The two stages of the code recover v from the text.
Recovered(text, v) ==
  \/ OnlyValue(text, v)
  \/ /\ \A w \in ValuesIn(text) : ~OnlyValue(text, w)
     /\ InFirstJsonFence(text, v)

\* The value has no variants field, or one that is not an array.
VariantsMissingOrNotArray(v) ==
  \/ v.t # "object"
  \/ "variants" \notin DOMAIN v.f
  \/ v.f.variants.t # "array"

\* The answer to a request whose completion text was parsed as v.
AnswerFor(v) ==
  IF VariantsMissingOrNotArray(v) THEN ErrorResponse(ErrNoVariants)
  ELSE RemixResponse(MapVariants(v.f.variants.items))

ParseFailed == responses = <<ErrorResponse(ErrSyntax)>>

ParsedValue == ParseContent(outcome.content)

\* C2 as stated: a parsed value whose variants field is absent, not an array
\* or an empty array is never answered with success.
C2_EmptyArrayRejected ==
  (/\ RemixSettledWithText
   /\ ParsedValue.ok
   /\ \/ VariantsMissingOrNotArray(ParsedValue.v)
      \/ ParsedValue.v.f.variants.items = <<>>)
    => ~responses[1].ok

\* C2 amended: a parsed value whose variants field is absent or not an array
\* is answered with the "no variants array" failure; an empty variants array
\* is answered with success and no variants.
C2_MissingOrNotArrayRejected ==
  RemixSettledWithText /\ ParsedValue.ok =>
    /\ VariantsMissingOrNotArray(ParsedValue.v)
         => responses = <<ErrorResponse(ErrNoVariants)>>
    /\ (~VariantsMissingOrNotArray(ParsedValue.v)
        /\ ParsedValue.v.f.variants.items = <<>>)
         => responses = <<OkResponse(<<>>)>>

\* The completion text {"variants": []} was answered with success.
C2_Witness ==
  /\ RemixSettledWithText
  /\ outcome.content = <<ValChunk(WithVariants(JArray(<<>>)))>>
  /\ responses[1].ok
  /\ responses[1].variants = <<>>

\* The variants array of the parsed value, when it has one without null in it.
HasPlainVariants ==
  /\ RemixSettledWithText
  /\ ParsedValue.ok
  /\ ~VariantsMissingOrNotArray(ParsedValue.v)
  /\ \A i \in 1..Len(ParsedValue.v.f.variants.items) :
       ParsedValue.v.f.variants.items[i].t = "object"

ResponseItems == ParsedValue.v.f.variants.items

Min(a, b) == IF a < b THEN a ELSE b

\* C3: a successful answer carries at most 3 variants, built from the first 3
\* of the response in their order.
C3_AtMostThree ==
  HasPlainVariants /\ responses[1].ok =>
    /\ Len(responses[1].variants) <= 3
    /\ Len(responses[1].variants) = Min(3, Len(ResponseItems))
    /\ \A i \in 1..Len(responses[1].variants) :
         responses[1].variants[i].html = FieldOr(ResponseItems[i], "html")

BothEmpty(variant) == variant.html = "" /\ variant.css = ""

Coerced(item, name) ==
  IF name \in DOMAIN item.f /\ item.f[name] # "" THEN item.f[name] ELSE ""

InvalidRemixPayload(payload) ==
  \/ /\ "html" \in DOMAIN payload => payload.html = ""
     /\ "css" \in DOMAIN payload => payload.css = ""
  \/ "prompt" \in DOMAIN payload
       => \A i \in 1..Len(payload.prompt) : payload.prompt[i] = " "

\* C5: an AI_REMIX request with html and css both empty, or with a blank
\* prompt, never reaches the key lookup or fetch, has no HTTP request sent for
\* it, and is answered with ok:false and an error; the sidebar never sends a
\* request with a blank prompt.
C5_InvalidRequestNeverFetched ==
  msg.type = "AI_REMIX" =>
    /\ origin = "sidebar" => ~InvalidRemixPayload(msg.payload)
    /\ InvalidRemixPayload(msg.payload) =>
         /\ http = <<>>
         /\ pc \in {"sent", "done"}
         /\ pc = "done" =>
              /\ Len(responses) = 1
              /\ ~responses[1].ok
              /\ responses[1].error # <<>>

\* A request with html and a prompt of one space was answered with an error.
C5_Witness ==
  /\ pc = "done"
  /\ msg = Message("AI_REMIX", [css |-> ".p{}", prompt |-> <<" ">>])
  /\ responses = <<ErrorResponse(MsgNoPrompt)>>
  /\ http = <<>>

\* C6: once callOpenAIForRemix has called fetch, exactly one HTTP request has
\* been sent for the message and its bearer token is the key the listener
\* passed to the call.
C6_OneRequestWithPassedKey ==
  (msg.type = "AI_REMIX" /\ pc \in {"fetch", "done"}
     /\ ~InvalidRemixPayload(msg.payload)) =>
    /\ Len(http) = 1
    /\ http[1].bearer = apiKeyArg

\* The fetch of an AI_REMIX request did not end in a list of variants.
RemixCallFailed ==
  \/ outcome.kind \in {"neterr", "status", "badjson"}
  \/ ~outcome.hasContent
  \/ outcome.content = <<>>
  \/ \A v \in ValuesIn(outcome.content) :
       Recovered(outcome.content, v) => VariantsMissingOrNotArray(v)

\* C7: a message is answered at most once, not before its handler is through
\* and exactly once when it is; the answer to AI_REMIX is either ok:true with
\* variants or ok:false with a non-empty error, and it is ok:false whenever
\* the remix call failed.
C7_ExactlyOneResponse ==
  /\ Len(responses) <= 1
  /\ pc \in {"sent", "bgKey", "setKey", "aiKey", "fetch", "lost"}
       => responses = <<>>
  /\ pc = "done" =>
       /\ Len(responses) = 1
       /\ responses[1].ok => responses[1].error = <<>>
       /\ ~responses[1].ok
            => responses[1].error # <<>> /\ responses[1].variants = <<>>
  /\ (pc = "done" /\ msg.type = "AI_REMIX" /\ outcome # NoOutcome
        /\ RemixCallFailed)
       => ~responses[1].ok

\* A request whose fetch returned status 500 was answered with ok:false.
C7_Witness ==
  /\ pc = "done"
  /\ msg.type = "AI_REMIX"
  /\ outcome.kind = "status"
  /\ outcome.status = "500"
  /\ Len(responses) = 1
  /\ ~responses[1].ok
  /\ responses[1].error = ErrStatus("500", <<"server error">>)

(***************************************************************************)
(* Properties of the library store (checked under SpecStore).              *)
(***************************************************************************)
\* The call in slot p has returned, chrome.storage.sync exists, and no other
\* call has written the collection since this one read it.
Completed(p, kind) ==
  /\ syncAvailable
  /\ calls[p].pc = "done"
  /\ calls[p].kind = kind
  /\ ~calls[p].dirty

\* The fields a partial record leaves unset have their defaults in e.
UnsetFieldsDefaulted(partial, e) ==
  /\ "tags" \notin DOMAIN partial => e.tags = <<>>
  /\ "remixedVariants" \notin DOMAIN partial => e.remixedVariants = <<>>
  /\ "generatedCode" \notin DOMAIN partial => e.generatedCode = ""
  /\ "framework" \notin DOMAIN partial => e.framework = "react"
  /\ "originalHTML" \notin DOMAIN partial => e.originalHTML = ""
  /\ "originalCSS" \notin DOMAIN partial => e.originalCSS = ""

\* The collection is L followed by the entry save returned, which has an id
\* and equal time stamps.
AppendedTo(L, e) ==
  /\ getAllComponents = L \o <<e>>
  /\ e.id # <<>>
  /\ e.createdAt = e.updatedAt

IdAbsent(p) ==
  \A i \in 1..Len(calls[p].current) : calls[p].current[i].id # calls[p].id

\* C9: after update(id, patch) with an id that no entry carries, the
\* collection is the one the call found.
C9_UpdateOfAbsentIdChangesNothing ==
  \A p \in Callers :
    (calls[p].pc = "done" /\ calls[p].kind = "update" /\ ~calls[p].dirty
       /\ IdAbsent(p))
      => getAllComponents = calls[p].current

\* An update with a patch and an id that none of two entries carries has
\* returned.
C9_Witness ==
  \E p \in Callers :
    /\ Completed(p, "update")
    /\ IdAbsent(p)
    /\ Len(calls[p].current) = 2
    /\ calls[p].patch = [name |-> "X", tags |-> <<"t2">>]
    /\ getAllComponents = calls[p].current

\* Entry r is entry c with the patch merged in and updatedAt set to now.
Patched(c, patch, now, r) ==
  /\ DOMAIN r = DOMAIN c \cup DOMAIN patch
  /\ r.updatedAt = now
  /\ \A f \in DOMAIN patch \ {"updatedAt"} : r[f] = patch[f]
  /\ \A f \in DOMAIN c \ (DOMAIN patch \cup {"updatedAt"}) : r[f] = c[f]

\* C10: after update(id, patch) with an id that an entry carries, the
\* collection has the length and order it had; the entries with that id have
\* the patch's values in the fields the patch names, the time of the call as
\* updatedAt and their other fields as before; every other entry is as before.
C10_UpdatePatchesOnlyTheEntry ==
  \A p \in Callers :
    (Completed(p, "update") /\ ~IdAbsent(p)) =>
      /\ Len(getAllComponents) = Len(calls[p].current)
      /\ \A i \in 1..Len(calls[p].current) :
           IF calls[p].current[i].id = calls[p].id
           THEN Patched(calls[p].current[i], calls[p].patch, calls[p].now,
                        getAllComponents[i])
           ELSE getAllComponents[i] = calls[p].current[i]

\* An update that renames the first of two entries, later than its last
\* change, has returned.
C10_Witness ==
  \E p \in Callers :
    /\ Completed(p, "update")
    /\ Len(calls[p].current) = 2
    /\ calls[p].current[1].id = calls[p].id
    /\ calls[p].current[2].id # calls[p].id
    /\ calls[p].patch = [name |-> "X", tags |-> <<"t2">>]
    /\ calls[p].now > calls[p].current[1].updatedAt
    /\ getAllComponents[1].name = "X"
    /\ getAllComponents[1].updatedAt = calls[p].now

\* R is L without its entries that carry the id: the other entries of L, each
\* as it was, in the order L has them.
WithoutId(L, id, R) ==
  LET kept == { i \in 1..Len(L) : L[i].id # id } IN
  /\ Len(R) = Cardinality(kept)
  /\ \A k \in 1..Len(R) : R[k].id # id
  /\ \E f \in [1..Len(R) -> 1..Len(L)] :
       /\ \A k \in 1..Len(R) : f[k] \in kept /\ R[k] = L[f[k]]
       /\ \A k, m \in 1..Len(R) : k < m => f[k] < f[m]

\* C11: after delete(id) the collection has no entry with that id and has
\* every other entry of the collection the call found, unchanged and in the
\* same relative order; when no entry carried the id, the collection is the
\* one the call found.
C11_DeleteRemovesOnlyTheEntry ==
  \A p \in Callers :
    Completed(p, "delete") =>
      /\ WithoutId(calls[p].current, calls[p].id, getAllComponents)
      /\ IdAbsent(p) => getAllComponents = calls[p].current

\* A delete of the first of two entries has returned and the second entry is
\* what is left.
C11_Witness ==
  \E p \in Callers :
    /\ Completed(p, "delete")
    /\ Len(calls[p].current) = 2
    /\ calls[p].current[1].id = calls[p].id
    /\ getAllComponents = <<calls[p].current[2]>>

\* No two entries of L carry the same id.
UniqueIds(L) == \A i, j \in 1..Len(L) : i # j => L[i].id # L[j].id

\* The entries L had are at their positions in R with the ids they had.
SameIdsAt(L, R) ==
  /\ Len(R) >= Len(L)
  /\ \A i \in 1..Len(L) : R[i].id = L[i].id

\* C13 as stated: no call makes two entries carry the same id, and no update
\* changes the id of an entry, whatever the patch.  A save that draws an id
\* some entry already carries is left aside.
C13_IdsUniqueAndImmutable ==
  \A p \in Callers :
    LET L == calls[p].current IN
    /\ (Completed(p, "save") /\ UniqueIds(L)
         /\ \A i \in 1..Len(L) : L[i].id # calls[p].entry.id)
          => UniqueIds(getAllComponents) /\ SameIdsAt(L, getAllComponents)
    /\ (Completed(p, "update") /\ UniqueIds(L))
          => UniqueIds(getAllComponents) /\ SameIdsAt(L, getAllComponents)
    /\ (Completed(p, "delete") /\ UniqueIds(L)) => UniqueIds(getAllComponents)

\* C14 as stated: every entry of the persisted collection has
\* updatedAt >= createdAt.
C14_UpdatedNotBeforeCreated ==
  \A i \in 1..Len(getAllComponents) :
    getAllComponents[i].updatedAt >= getAllComponents[i].createdAt

\* The collection the call in slot p hands to the substrate is made from the
\* collection it read.
MadeFromRead(p) ==
  LET c == calls[p] IN
  CASE c.kind = "save" -> c.next = c.current \o <<c.entry>>
    [] c.kind = "delete" -> WithoutId(c.current, c.id, c.next)
    [] OTHER ->
         /\ Len(c.next) = Len(c.current)
         /\ \A i \in 1..Len(c.current) :
              c.current[i].id # c.id => c.next[i] = c.current[i]

\* C15: a call completes whatever was written since it read, and when it
\* writes, the persisted collection becomes the one it made from what it had
\* read: the last write wins on the whole collection.
C15_LastWriteWins ==
  [][\A p \in Callers :
       (syncAvailable /\ calls[p].pc = "writing" /\ calls'[p].pc = "done")
         => /\ MadeFromRead(p)
            /\ ~calls'[p].failed
            /\ stored'
            /\ store' = calls[p].next]_vars

\* Two saves read the same collection and both returned: the entry the
\* first returned is not in the persisted collection, the entry of the
\* second is.
C15_Witness ==
  \E p, q \in Callers :
    /\ p # q
    /\ calls[p].pc = "done" /\ calls[p].kind = "save"
    /\ calls[q].pc = "done" /\ calls[q].kind = "save"
    /\ calls[p].current = calls[q].current
    /\ calls[p].entry # calls[q].entry
    /\ \A i \in 1..Len(getAllComponents) : getAllComponents[i] # calls[p].entry
    /\ getAllComponents = calls[q].current \o <<calls[q].entry>>

(***************************************************************************)
(* Properties of search and of the popup's library handlers (checked       *)
(* under SpecLibrary).                                                     *)
(***************************************************************************)
\* R is the entries of L at the positions kept, each as it is, in L's order.
SelectedFrom(L, kept, R) ==
  /\ Len(R) = Cardinality(kept)
  /\ \E f \in [1..Len(R) -> 1..Len(L)] :
       /\ \A k \in 1..Len(R) : f[k] \in kept /\ R[k] = L[f[k]]
       /\ \A k, m \in 1..Len(R) : k < m => f[k] < f[m]

\* q occurs in the text, letter case ignored.
OccursIn(q, text) ==
  \E i \in 0..(Len(text) - Len(q)) :
    \A k \in 1..Len(q) : ToLowerChar(text[i + k]) = ToLowerChar(q[k])

\* The answer of a search is the whole collection for the empty query and,
\* for another query, the entries whose searched text has the query in it.
SearchAnswers(sr, SearchedText(_)) ==
  IF sr.query = <<>> THEN sr.result = sr.all
  ELSE SelectedFrom(sr.all,
                    { i \in 1..Len(sr.all) :
                        OccursIn(sr.query, SearchedText(sr.all[i])) },
                    sr.result)

\* The name of the entry followed by its tags, nothing in between.
NameAndTags(c) == Join(<<c.name>> \o c.tags, <<>>)

\* The name of the entry, a space, and its tags with a space between them.
NameSpaceTags(c) == Chars(c.name) \o <<" ">> \o Join(c.tags, <<" ">>)

\* C12 as stated: search("") returns the collection, and search(q) returns
\* the entries for which q occurs, case ignored, in the concatenation of the
\* name and the tags.
C12_SearchByConcatenation ==
  searchResult.seq > 0 => SearchAnswers(searchResult, NameAndTags)

\* C12 amended: search("") returns the collection in full and in order;
\* search(q) returns exactly the entries, in the collection's order, for which
\* q occurs, case ignored, in the name followed by one space and the tags
\* joined by single spaces; a search leaves the persisted collection as it is.
C12_SearchBySpacedText ==
  [][searchResult' # searchResult =>
       /\ searchResult'.all = getAllComponents
       /\ SearchAnswers(searchResult', NameSpaceTags)
       /\ UNCHANGED <<stored, store>>]_vars

\* A search for "T1" over two entries returned the one tagged t1.
C12_Witness ==
  /\ searchResult.query = <<"T", "1">>
  /\ Len(searchResult.all) = 2
  /\ Len(searchResult.result) = 1
  /\ searchResult.result[1].tags = <<"t1">>

\* A popup handler takes the return of its library store call.
PopupCallReturns ==
  /\ popupPc \in {"saving", "editing", "deleting"}
  /\ popupPc' = "idle"

\* C16 as stated: a write the substrate failed leaves the persisted
\* collection as it was, and the popup handler that made the call shows its
\* "try again" message and leaves allComponents as it was.
C16_WriteFailureReported ==
  [][/\ (calls[1].pc = "writing" /\ calls'[1].pc = "done" /\ calls'[1].failed)
          => UNCHANGED <<stored, store>>
     /\ (PopupCallReturns /\ calls[1].failed)
          => /\ toast' \in { Toast("saveFailed", ""), Toast("updateFailed", ""),
                              Toast("deleteFailed", "") }
             /\ allComponents' = allComponents]_vars

\* The ids, order, names, tags and time stamps of two lists are the same.
SameEntries(A, B) ==
  /\ Len(A) = Len(B)
  /\ \A i \in 1..Len(A) :
       /\ A[i].id = B[i].id
       /\ A[i].name = B[i].name
       /\ A[i].tags = B[i].tags
       /\ A[i].createdAt = B[i].createdAt
       /\ A[i].updatedAt = B[i].updatedAt

\* C17 as stated: with the popup the only writer, its actions serialized and
\* no write failing, allComponents equals the persisted collection entry for
\* entry whenever the popup is loaded and no action is in progress.
C17_ReplicaEqualsStore ==
  (popupPc = "idle" /\ ~writeFaults)
    => SameEntries(allComponents, getAllComponents)

(***************************************************************************)
(* Properties of extraction (checked under SpecPage).                      *)
(***************************************************************************)
\* The attributes of a node that are neither id, class nor data-*.
OtherAttrs(node) ==
  SelectSeq(node.attrs, LAMBDA a : ~IsId(a) /\ ~IsClass(a) /\ ~IsData(a))

\* N is E with, at every depth, no id and no data-* attribute, the single
\* class cre-component where E has a class and none where E has none, and
\* everything else as in E.
RECURSIVE NormalizedCopy(_, _)
NormalizedCopy(E, N) ==
  IF E.type # "element" THEN N = E
  ELSE /\ N.type = "element"
       /\ N.ns = E.ns
       /\ N.tag = E.tag
       /\ \A i \in 1..Len(N.attrs) : ~IsId(N.attrs[i]) /\ ~IsData(N.attrs[i])
       /\ ClassList(N) = IF ClassList(E) # <<>> THEN <<"cre-component">>
                         ELSE <<>>
       /\ OtherAttrs(N) = OtherAttrs(E)
       /\ Len(N.children) = Len(E.children)
       /\ \A i \in 1..Len(E.children) :
            NormalizedCopy(E.children[i], N.children[i])

\* C18 as stated: the copy extraction makes of an element tree E is E
\* normalized at every depth, and E is left as it was.
C18_CopyIsNormalized ==
  extracted.kind = "ok" =>
    /\ NormalizedCopy(extracted.el.tree, extracted.cloned)
    /\ extracted.source = extracted.el

\* The values a declaration is never emitted for.
Sentinels ==
  { "", "0px", "0", "none", "rgba(0, 0, 0, 0)", "transparent", "normal",
    "auto" }

\* The positions of the allow-list whose property has a value in the style
\* that is not a sentinel.
Survivors(style) ==
  { i \in 1..Len(importantProps) :
      /\ importantProps[i] \in DOMAIN style
      /\ style[importantProps[i]] \notin Sentinels }

\* The k-th smallest member of a set of positions.
Nth(S, k) == CHOOSE i \in S : Cardinality({ j \in S : j < i }) = k - 1

\* C19: the CSS text extracted for a style has one declaration for each
\* allow-listed property whose value is present and not a sentinel, with that
\* value, in allow-list order, and is the empty string when there is none.
C19_DeclarationsOfSurvivors ==
  extracted.kind = "ok" =>
    LET style == extracted.el.style
        css == extracted.css
    IN IF Survivors(style) = {} THEN css = EmptyCss
       ELSE /\ css.selector = ".cre-component"
            /\ Len(css.lines) = Cardinality(Survivors(style))
            /\ \A k \in 1..Len(css.lines) :
                 LET prop == importantProps[Nth(Survivors(style), k)] IN
                 /\ css.lines[k].name = cssName(prop)
                 /\ css.lines[k].value = style[prop]

\* A style with display none, margin-top 10px and z-index 10px was extracted
\* as the two declarations margin-top and z-index, in that order.
C19_Witness ==
  /\ extracted.kind = "ok"
  /\ <<"display">> \in DOMAIN extracted.el.style
  /\ extracted.el.style[<<"display">>] = "none"
  /\ extracted.css.lines =
       << [name |-> <<"margin", "-", "t", "op">>, value |-> "10px"],
          [name |-> <<"z", "-", "i", "ndex">>, value |-> "10px"] >>

\* C20: extractElement on an absent or non-copyable element throws the
\* invalid-element error and returns nothing; in the click handler this
\* leaves lastExtractedComponent and the sidebar as they were, extraction
\* mode off and the failure alert shown.
C20_InvalidElementRejected ==
  [][(extracted'.seq # extracted.seq /\ NotCopyable(extracted'.el)) =>
       /\ extracted'.kind = "thrown"
       /\ extracted'.error = ErrInvalidElement
       /\ "html" \notin DOMAIN extracted'
       /\ extracted'.by = "click" =>
            /\ lastExtractedComponent' = lastExtractedComponent
            /\ sidebarEl' = sidebarEl
            /\ isExtracting /\ ~isExtracting'
            /\ alertText' = AlertExtractFailed]_vars

\* After one element was extracted and shown, a click on a target that
\* cannot be copied failed: the component and the sidebar are still there.
C20_Witness ==
  /\ extracted.kind = "thrown"
  /\ extracted.by = "click"
  /\ extracted.el = Target("object")
  /\ alertText = AlertExtractFailed
  /\ ~isExtracting
  /\ lastExtractedComponent # NoComponent
  /\ sidebarEl = lastExtractedComponent

(***************************************************************************)
(* Properties of error reporting (checked under SpecRemix).                *)
(***************************************************************************)
\* The failure message contains one of the needles.
Mentions(m, needles) ==
  \E i \in 1..Len(m), n \in needles : <<m[i], n>> \in TokenContains

\* The categories in the order they are tried: the needles of each and the
\* text the user is shown.
Categories ==
  << [needles |-> {"API key", "401"}, text |-> MsgInvalidKey],
     [needles |-> {"Network", "fetch"}, text |-> MsgNetwork],
     [needles |-> {"rate limit", "429"}, text |-> MsgRateLimit] >>

\* The text of the first category the message falls in, or the message.
Reported(m) ==
  IF \E k \in 1..Len(Categories) : Mentions(m, Categories[k].needles)
  THEN Categories[CHOOSE k \in 1..Len(Categories) :
                    /\ Mentions(m, Categories[k].needles)
                    /\ \A j \in 1..(k - 1) :
                         ~Mentions(m, Categories[j].needles)].text
  ELSE m

\* The AI_REMIX request was answered after its remix call failed.
FailedRemixAnswered ==
  /\ pc = "done"
  /\ msg.type = "AI_REMIX"
  /\ outcome # NoOutcome
  /\ ~RemixResult(outcome).ok

\* C26: a failed remix call is answered with the text of the first category
\* its message falls in, tried in the order credential, network, rate limit,
\* and with the message itself when it falls in none; the message of a
\* non-success status is made of the status code and the response body.
C26_FirstMatchingCategory ==
  FailedRemixAnswered =>
    /\ Len(responses) = 1
    /\ ~responses[1].ok
    /\ responses[1].error = Reported(RemixResult(outcome).error)
    /\ outcome.kind = "status" =>
         LET m == RemixResult(outcome).error IN
         /\ Len(m) = 3 + Len(outcome.body)
         /\ m[2] = outcome.status
         /\ SubSeq(m, 4, Len(m)) = outcome.body

\* A request that met status 429 with a body naming the API key was reported
\* as an invalid credential.
C26_Witness ==
  /\ FailedRemixAnswered
  /\ outcome.kind = "status"
  /\ outcome.status = "429"
  /\ outcome.body = <<"Incorrect API key provided">>
  /\ responses[1].error = MsgInvalidKey

(***************************************************************************)
(* Calls on an absent id among other calls (checked under SpecStore).      *)
(***************************************************************************)
\* C27: when update(id, patch) or delete(id) completes and no entry of the
\* collection it read carries id, the persisted collection is what it was
\* just before: an entry another call persisted in the meantime is still
\* there.
C27_AbsentIdWritesNothing ==
  [][\A p \in Callers :
       (/\ syncAvailable
        /\ calls[p].kind \in {"update", "delete"}
        /\ IdAbsent(p)
        /\ calls[p].pc = "writing"
        /\ calls'[p].pc = "done")
         => getAllComponents' = getAllComponents]_vars

(***************************************************************************)
(* Properties of extraction mode (checked under SpecPage).                 *)
(***************************************************************************)
\* The event left the content script as it was.
PageUntouched ==
  UNCHANGED <<isExtracting, hoverOverlay, sidebarEl, lastExtractedComponent,
              alertText, pageDoc, extracted, listeners, overlayNodes, rendered,
              notification, remixes>>

\* The target is an element of the page: not absent, not the overlay, not in
\* the sidebar, and it can be copied.
PageElement(target) == target.type = "element"

\* C21: a start signal leaves the mode on and changes nothing when it was on;
\* a stop signal leaves it off and changes nothing when it was off; a click
\* on a page element while the mode is on extracts that element, once, shows
\* it and leaves the mode off; while the mode is off a click or a pointer
\* move extracts nothing, shows no highlight and changes nothing.
C21_TwoStateMode ==
  [][/\ StartExtraction =>
          /\ isExtracting'
          /\ isExtracting => PageUntouched
     /\ StopExtraction =>
          /\ ~isExtracting'
          /\ ~isExtracting => PageUntouched
     /\ \A target \in ClickTargets :
          /\ (HandleClick(target) /\ isExtracting /\ PageElement(target)) =>
               /\ ~isExtracting'
               /\ extracted'.seq = clicks'
               /\ extracted'.seq # extracted.seq
               /\ extracted'.by = "click"
               /\ extracted'.kind = "ok"
               /\ extracted'.el = target
               /\ lastExtractedComponent' = ComponentOf(extracted')
               /\ sidebarEl' = lastExtractedComponent'
          /\ ((HandleClick(target) \/ HandleMouseMove(target)) /\ ~isExtracting)
               => /\ PageUntouched
                  /\ hoverOverlay' # "shown"]_vars

\* An element was extracted by a click, which left the mode off, and the
\* event after it, with no start signal in between, extracted nothing.
C21_Witness ==
  /\ extracted.kind = "ok"
  /\ extracted.by = "click"
  /\ clicks = extracted.seq + 1
  /\ ~isExtracting
  /\ hoverOverlay = "none"
  /\ ~sidebarEl.none
  /\ sidebarEl = lastExtractedComponent

\* C30: the overlay exists, and the mousemove and the click handler are
\* registered, exactly when extraction mode is on; there is at most one
\* overlay node and one registration of each handler.
C30_OverlayAndHandlersFollowMode ==
  /\ isExtracting <=> hoverOverlay # "none"
  /\ overlayNodes = IF isExtracting THEN 1 ELSE 0
  /\ listeners.mousemove = IF isExtracting THEN 1 ELSE 0
  /\ listeners.click = IF isExtracting THEN 1 ELSE 0

\* The mode was started again after a click had extracted an element, and
\* the pointer then moved over an element: one overlay, shown.
C30_Witness ==
  /\ extracted.kind = "ok"
  /\ extracted.by = "click"
  /\ isExtracting
  /\ hoverOverlay = "shown"
  /\ overlayNodes = 1
  /\ listeners = [mousemove |-> 1, click |-> 1]

(***************************************************************************)
(* The popup's Export button (popup.js handleExportComponent) and the code  *)
(* the save handler stores with an entry.                                   *)
(***************************************************************************)
\* parseInt(text, 10): white space is skipped, then an optional sign and the
\* longest run of digits are read; NaN when there is no digit.
ParseInt(text) ==
  LET DigitValue(ch) ==
        CASE ch = "0" -> 0 [] ch = "1" -> 1 [] ch = "2" -> 2 [] ch = "3" -> 3
          [] ch = "4" -> 4 [] ch = "5" -> 5 [] ch = "6" -> 6 [] ch = "7" -> 7
          [] ch = "8" -> 8 [] ch = "9" -> 9 [] OTHER -> -1
      t == TrimStart(text)
      signed == t # <<>> /\ Head(t) \in {"-", "+"}
      body == IF signed THEN Tail(t) ELSE t
      RECURSIVE Read(_, _)
      Read(i, acc) ==
        IF i <= Len(body) /\ DigitValue(body[i]) >= 0
        THEN Read(i + 1, 10 * acc + DigitValue(body[i]))
        ELSE [read |-> i - 1, n |-> acc]
      r == Read(1, 0)
  IN IF r.read = 0 THEN [nan |-> TRUE, n |-> 0]
     ELSE [nan |-> FALSE,
           n |-> IF signed /\ Head(t) = "-" THEN 0 - r.n ELSE r.n]

\* buildDownloadBlob's file name
DownloadName(framework, comp) ==
  LET bare == SelectSeq(Chars(comp.name), LAMBDA ch : ch # " ")
  IN <<IF bare = <<>> THEN <<"Component">> ELSE bare,
       IF framework = "vue" THEN ".vue"
       ELSE IF framework = "html" THEN ".html" ELSE ".jsx">>

\* The variant handleExportComponent exports for the text typed at the first
\* prompt.
VariantToExport(comp, choice) ==
  LET idx == ParseInt(choice.text)
  IN IF /\ comp.remixedVariants # <<>>
        /\ ~idx.nan
        /\ idx.n >= 1
        /\ idx.n <= Len(comp.remixedVariants)
     THEN comp.remixedVariants[idx.n]
     ELSE [html |-> comp.originalHTML, css |-> comp.originalCSS]

\* The code handleExportComponent exports: the stored code, unless the entry
\* has variants and the chosen one differs from the original.
ExportCode(comp, choice) ==
  LET framework == TextOr(comp, "framework", "react")
      variantToExport == VariantToExport(comp, choice)
      generated == generateCodeForFramework(framework, variantToExport,
                                            Chars(comp.name))
  IN IF /\ comp.remixedVariants # <<>>
        /\ ~(/\ variantToExport.html = comp.originalHTML
             /\ variantToExport.css = comp.originalCSS)
     THEN generated
     ELSE IF comp.generatedCode # "" THEN comp.generatedCode
     ELSE generated

\* What the two prompts of Export return.
ChoiceInputs ==
  { [null |-> TRUE, text |-> <<>>], [null |-> FALSE, text |-> <<"0">>],
    [null |-> FALSE, text |-> <<" ", "1">>], [null |-> FALSE, text |-> <<"2">>],
    [null |-> FALSE, text |-> <<"7">>], [null |-> FALSE, text |-> <<"x">>] }

ActionInputs ==
  { [null |-> TRUE, text |-> <<>>], [null |-> FALSE, text |-> <<>>],
    [null |-> FALSE, text |-> <<"C", " ">>], [null |-> FALSE, text |-> <<"d">>],
    [null |-> FALSE, text |-> <<"x">>] }

\* The Export button of the i-th card is clicked, the prompts are answered
\* and the clipboard accepts the text or not.
PopupExport(i, choice, action, copied) ==
  /\ popupPc = "idle"
  /\ i \in 1..Len(allComponents)
  /\ LET comp == allComponents[i]
         framework == TextOr(comp, "framework", "react")
         actionLower == Trim(ToLowerCase(action.text))
         export(via) == [via |-> via, entry |-> comp, choice |-> choice,
                         code |-> ExportCode(comp, choice)]
     IN IF comp.remixedVariants # <<>> /\ choice.null
        THEN UNCHANGED <<toast, exported>>
        ELSE IF action.null \/ action.text = <<>>
        THEN UNCHANGED <<toast, exported>>
        ELSE IF actionLower \in {<<"c">>, <<"c", "o", "p", "y">>}
        THEN IF copied
             THEN /\ toast' = Toast("copied", "")
                  /\ exported' = export("clipboard")
             ELSE /\ toast' = Toast("copyFailed", "")
                  /\ UNCHANGED exported
        ELSE IF actionLower \in {<<"d">>, <<"d", "o", "w", "n", "l", "o", "a", "d">>}
        THEN /\ toast' = Toast("downloaded", DownloadName(framework, comp))
             /\ exported' = export("download")
        ELSE /\ toast' = Toast("invalidOption", "")
             /\ UNCHANGED exported
  /\ UNCHANGED <<remixVars, storeVars, pageVars, allComponents, isLoading,
                 popupPc, popupComp, latestComponentPayload, searchResult,
                 defaultFramework, toggle>>

\* The payloads the popup can hold: a component with one variant, with none,
\* and with two of which the second repeats the original.
CodegenPayloads ==
  { LatestPayload,
    [LatestPayload EXCEPT !.variants = <<>>],
    [LatestPayload EXCEPT
       !.variants = <<NormalizeVariant(VA),
                      [NormalizeVariant(VA) EXCEPT !.html = "<p/>",
                                                   !.css = ".p{}"]>>] }

CodegenNames ==
  { [null |-> FALSE, text |-> <<" ", "C", " ">>],
    [null |-> FALSE, text |-> <<"C", "-", "X">>],
    [null |-> FALSE, text |-> <<"-">>] }

\* The popup is open with an empty library and holds a component; the default
\* framework is any of the three.  One store call is left to start.
InitCodegen ==
  /\ syncAvailable = TRUE
  /\ writeFaults = FALSE
  /\ store = <<>>
  /\ stored = FALSE
  /\ clock = 0
  /\ calls = [p \in Callers |-> NoCall]
  /\ started = MaxCalls - 1
  /\ RemixIdle
  /\ PageIdle
  /\ allComponents = <<>>
  /\ toast = <<>>
  /\ isLoading = FALSE
  /\ popupPc = "idle"
  /\ popupComp = <<>>
  /\ latestComponentPayload \in CodegenPayloads
  /\ searchResult = NoSearch
  /\ defaultFramework \in {"react", "vue", "html"}
  /\ toggle = NoToggle
  /\ exported = NoExport

NextCodegen ==
  \/ \E nameInput \in CodegenNames, tagsInput \in TagInputs :
       PopupSaveLatest(nameInput, tagsInput)
  \/ \E rand \in Rands : ReadDone(1, rand)
  \/ \E failed \in BOOLEAN : WriteDone(1, failed)
  \/ PopupSaved
  \/ \E i \in 1..Len(allComponents), choice \in ChoiceInputs,
        action \in ActionInputs, copied \in BOOLEAN :
       PopupExport(i, choice, action, copied)

SpecCodegen == InitCodegen /\ [][NextCodegen]_vars

(***************************************************************************)
(* Claims about code generation and export.                                *)
(***************************************************************************)
\* The places of a generated text that carry the component's name.
NamesWritten(code, framework) ==
  IF framework = "vue" THEN {}
  ELSE IF framework = "html" THEN {code[2]}
  ELSE {code[2], code[4], code[8]}

\* C22: for every format and every name, the name written into the generated
\* code is the name without its non-alphanumeric characters, or the
\* placeholder when none remains; the comment of the html output included.
C22_SanitizedNameWritten ==
  \A i \in 1..Len(allComponents) :
    LET e == allComponents[i]
        kept == SelectSeq(Chars(e.name), IsAlnum)
    IN \A n \in NamesWritten(e.generatedCode, e.framework) :
         n = IF kept = <<>> THEN MyComponent ELSE kept

\* C25: the code exported for an entry with variants is generated from the
\* variant chosen: the original for 0 or a number out of range, the k-th
\* variant for k in 1..n.
C25_ExportUsesChosenVariant ==
  (/\ exported.via # "none"
   /\ exported.entry.remixedVariants # <<>>
   /\ ~ParseInt(exported.choice.text).nan)
    => LET e == exported.entry
           k == ParseInt(exported.choice.text).n
           chosen == IF k \in 1..Len(e.remixedVariants)
                     THEN e.remixedVariants[k]
                     ELSE [html |-> e.originalHTML, css |-> e.originalCSS]
       IN exported.code =
            generateCodeForFramework(e.framework, chosen, Chars(e.name))

(***************************************************************************)
(* The popup's toggle (popup.js wireExtractionToggle) and the page it       *)
(* switches; then the page (content.js) with the sidebars it opens, their   *)
(* remix requests and the CRE_LATEST_COMPONENT messages to the popup.  The  *)
(* service worker is its answer to a request: no answer (lastError), an     *)
(* error, or a success with no or one variant.                              *)
(***************************************************************************)
\* The remix variables a sidebar of the page leaves alone.
workerVars ==
  <<syncAvailable, localKey, syncKey, cachedApiKey, msg, origin, pc, apiKeyArg,
    http, outcome, responses, delivered, sbComponent, sbRendered, notified>>

\* The answers of the service worker to AI_REMIX; [lost |-> TRUE] when the
\* callback runs with chrome.runtime.lastError set.
RemixAnswers ==
  { [lost |-> TRUE],
    Spread(ErrorResponse(MsgNetwork), [lost |-> FALSE]),
    Spread(OkResponse(<<>>), [lost |-> FALSE]),
    Spread(OkResponse(<<NormalizeVariant(VA)>>), [lost |-> FALSE]) }

\* What chrome.tabs.query returns as tabs[0]: no tab, a chrome:// page, a
\* web page.
Tabs == { "none", "chrome", "web" }

\* The toggle button is clicked and chrome.tabs.query has answered.
TogglePress(tab) ==
  /\ popupPc # "closed"
  /\ Len(toggle.flight) < MaxMessages
  /\ IF tab = "none"
     THEN /\ toast' = Toast("noTab", "")
          /\ UNCHANGED toggle
     ELSE IF tab = "chrome"
     THEN /\ toast' = Toast("notAvailable", "")
          /\ UNCHANGED toggle
     ELSE /\ toggle' =
               [toggle EXCEPT !.flight =
                  Append(@, [starting |-> toggle.state # "on", pc |-> "sent",
                             orphan |-> FALSE])]
          /\ UNCHANGED toast
  /\ UNCHANGED <<remixVars, storeVars, pageVars, allComponents, isLoading,
                 popupPc, popupComp, latestComponentPayload, searchResult,
                 defaultFramework, exported>>

\* The first message of the toggle that the tab has not received yet.
NextToTab ==
  CHOOSE k \in 1..Len(toggle.flight) :
    /\ toggle.flight[k].pc = "sent"
    /\ \A j \in 1..(k - 1) : toggle.flight[j].pc # "sent"

\* content.js chrome.runtime.onMessage listener: START_EXTRACTION or
\* STOP_EXTRACTION arrives and sendResponse({ ok: true }) is called.
ToggleDeliver ==
  /\ \E k \in 1..Len(toggle.flight) : toggle.flight[k].pc = "sent"
  /\ IF toggle.flight[NextToTab].starting
     THEN StartExtractionEffect
     ELSE StopExtractionEffect
  /\ toggle' = [toggle EXCEPT !.flight[NextToTab].pc = "answered"]
  /\ UNCHANGED <<remixVars, storeVars, allComponents, toast, isLoading, popupPc,
                 popupComp, latestComponentPayload, searchResult,
                 defaultFramework, exported, sidebarEl, lastExtractedComponent,
                 alertText, pageDoc, extracted, clicks, rendered, notification,
                 remixes>>

\* The tab has no listener for the message: the callback will run with
\* chrome.runtime.lastError set.
ToggleUndelivered ==
  /\ \E k \in 1..Len(toggle.flight) : toggle.flight[k].pc = "sent"
  /\ toggle' = [toggle EXCEPT !.flight[NextToTab].pc = "failed"]
  /\ UNCHANGED <<remixVars, storeVars, pageVars, allComponents, toast,
                 isLoading, popupPc, popupComp, latestComponentPayload,
                 searchResult, defaultFramework, exported>>

\* The callback of chrome.tabs.sendMessage in the toggle's click handler; the
\* callback of a popup that was closed meanwhile does not run.
ToggleResponse ==
  /\ toggle.flight # <<>>
  /\ Head(toggle.flight).pc # "sent"
  /\ LET m == Head(toggle.flight) IN
     IF m.orphan
     THEN /\ toggle' = [toggle EXCEPT !.flight = Tail(@)]
          /\ UNCHANGED toast
     ELSE IF m.pc = "failed"
     THEN /\ toggle' = [toggle EXCEPT !.flight = Tail(@)]
          /\ toast' = Toast("commFailed", "")
     ELSE /\ toggle' = [state |-> IF m.starting THEN "on" ELSE "off",
                        flight |-> Tail(toggle.flight)]
          /\ UNCHANGED toast
  /\ UNCHANGED <<remixVars, storeVars, pageVars, allComponents, isLoading,
                 popupPc, popupComp, latestComponentPayload, searchResult,
                 defaultFramework, exported>>

\* The popup is closed: its page and the variables of popup.js are gone, the
\* messages it sent stay on their way.
PopupClose ==
  /\ popupPc \in {"idle", "loading"}
  /\ popupPc' = "closed"
  /\ allComponents' = <<>>
  /\ toast' = <<>>
  /\ isLoading' = FALSE
  /\ popupComp' = <<>>
  /\ latestComponentPayload' = <<>>
  /\ searchResult' = NoSearch
  /\ defaultFramework' = "react"
  /\ toggle' =
       [state |-> "off",
        flight |-> [k \in 1..Len(toggle.flight) |->
                      [toggle.flight[k] EXCEPT !.orphan = TRUE]]]
  /\ UNCHANGED <<remixVars, storeVars, pageVars, exported>>

\* content.js: the remix button of the sidebar is clicked; the button is
\* disabled while its request is out.
RemixClick(input) ==
  /\ ~sidebarEl.none
  /\ \A k \in 1..Len(remixes) : ~(remixes[k].live /\ remixes[k].pc = "sent")
  /\ Len(remixes) < MaxMessages
  /\ LET prompt == Trim(input) IN
     IF prompt = <<>>
     THEN /\ sbStatus' = "enter-prompt"
          /\ UNCHANGED remixes
     ELSE /\ sbStatus' = "contacting"
          /\ remixes' =
               Append(remixes,
                      [of |-> sidebarEl, live |-> TRUE, pc |-> "sent",
                       payload |-> [html |-> sidebarEl.html,
                                    css |-> sidebarEl.css, prompt |-> prompt]])
  /\ UNCHANGED <<workerVars, storeVars, popupVars, isExtracting, hoverOverlay,
                 sidebarEl, lastExtractedComponent, alertText, pageDoc,
                 extracted, clicks, listeners, overlayNodes, rendered,
                 notification>>

\* renderVariants(variants): the cards go into the container of the sidebar
\* the page shows now, if there is one.
renderVariants(request, variants) ==
  IF sidebarEl.none THEN rendered
  ELSE [none |-> FALSE, of |-> request.of, variants |-> variants]

\* content.js: the callback of the k-th request's sendMessage runs with the
\* answer r.
RemixCallback(k, r) ==
  /\ k \in 1..Len(remixes)
  /\ remixes[k].pc = "sent"
  /\ remixes' = [remixes EXCEPT ![k].pc = "done"]
  /\ IF r.lost
     THEN /\ sbStatus' = "comm-failed"
          /\ UNCHANGED <<rendered, notification>>
     ELSE IF ~r.ok
     THEN /\ sbStatus' = "error"
          /\ UNCHANGED <<rendered, notification>>
     ELSE IF Len(r.variants) = 0
     THEN /\ sbStatus' = "no-variants"
          /\ UNCHANGED <<rendered, notification>>
     ELSE /\ sbStatus' = "generated"
          /\ rendered' = renderVariants(remixes[k], r.variants)
          /\ notification' =
               Append(notification, [original |-> remixes[k].of,
                                     variants |-> r.variants])
  /\ UNCHANGED <<workerVars, storeVars, popupVars, isExtracting, hoverOverlay,
                 sidebarEl, lastExtractedComponent, alertText, pageDoc,
                 extracted, clicks, listeners, overlayNodes>>

\* popup.js chrome.runtime.onMessage listener: CRE_LATEST_COMPONENT arrives
\* at an open popup.
PopupOnLatest ==
  /\ notification # <<>>
  /\ popupPc # "closed"
  /\ latestComponentPayload' = Head(notification)
  /\ notification' = Tail(notification)
  /\ UNCHANGED <<remixVars, storeVars, allComponents, toast, isLoading, popupPc,
                 popupComp, searchResult, defaultFramework, toggle, exported,
                 isExtracting, hoverOverlay, sidebarEl, lastExtractedComponent,
                 alertText, pageDoc, extracted, clicks, listeners, overlayNodes,
                 rendered, remixes>>

\* No popup is open when CRE_LATEST_COMPONENT is sent on: the page's callback
\* finds chrome.runtime.lastError and ignores it.
NotifyNobody ==
  /\ notification # <<>>
  /\ popupPc = "closed"
  /\ notification' = Tail(notification)
  /\ UNCHANGED <<remixVars, storeVars, popupVars, isExtracting, hoverOverlay,
                 sidebarEl, lastExtractedComponent, alertText, pageDoc,
                 extracted, clicks, listeners, overlayNodes, rendered, remixes>>

\* Two elements of the page whose extracted components differ.
SessionElements ==
  { e \in PageElements :
      /\ e.tree.tag \in {"p", "span"}
      /\ \A prop \in DOMAIN e.style : e.style[prop] \in {"block", "normal"}
      /\ DOMAIN e.style = { importantProps[i] : i \in 1..Len(importantProps) } }

\* The content script is injected into a web page, the popup is closed and
\* the library is empty.
InitSession ==
  /\ writeFaults = FALSE
  /\ syncAvailable = TRUE
  /\ StoreIdle
  /\ RemixIdle
  /\ PopupIdle
  /\ isExtracting = FALSE
  /\ hoverOverlay = "none"
  /\ sidebarEl = NoComponent
  /\ lastExtractedComponent = NoComponent
  /\ alertText = ""
  /\ pageDoc \in SessionElements
  /\ extracted = NoExtract
  /\ clicks = 0
  /\ listeners = NoListeners
  /\ overlayNodes = 0
  /\ rendered = NoRender
  /\ notification = NoNotification
  /\ remixes = <<>>

\* The toggle of the popup and the clicks on the page.
NextToggle ==
  \/ PopupOpen
  \/ PopupLoaded
  \/ PopupClose
  \/ \E tab \in Tabs : TogglePress(tab)
  \/ ToggleDeliver
  \/ ToggleUndelivered
  \/ ToggleResponse
  \/ \E target \in SessionElements \cup {Target("null")} : HandleClick(target)
  \/ CloseSidebar

SpecToggle == InitSession /\ [][NextToggle]_vars

\* Extraction, remix and the popup's latest component.
NextSession ==
  \/ PopupOpen
  \/ PopupLoaded
  \/ PopupClose
  \/ StartExtraction
  \/ \E target \in SessionElements : HandleClick(target)
  \/ CloseSidebar
  \/ \E input \in PromptInputs : RemixClick(input)
  \/ \E k \in 1..Len(remixes), r \in RemixAnswers : RemixCallback(k, r)
  \/ PopupOnLatest
  \/ NotifyNobody
  \/ \E nameInput \in NameInputs, tagsInput \in TagInputs :
       PopupSaveLatest(nameInput, tagsInput)

SpecSession == InitSession /\ [][NextSession]_vars

(***************************************************************************)
(* Claims about the popup, the page and the messages between them.         *)
(***************************************************************************)
\* C23: whenever a remix request is answered with success, the page sends
\* one latest-component message whose original is the component the request
\* was issued for and whose variants are those of the answer.
C23_NotifiesOncePerSuccess ==
  [][\A k \in 1..Len(remixes), r \in RemixAnswers :
       (RemixCallback(k, r) /\ ~r.lost /\ r.ok)
         => notification' = Append(notification,
                                   [original |-> remixes[k].of,
                                    variants |-> r.variants])]_vars

\* C24: once a component has been extracted on the page, remixed or not,
\* pressing "Save latest component" is not rejected with "No extracted
\* component available".
C24_SaveLatestAfterExtraction ==
  [][((\E nameInput \in NameInputs, tagsInput \in TagInputs :
         PopupSaveLatest(nameInput, tagsInput))
      /\ ~lastExtractedComponent.none)
       => toast' # Toast("noLatest", "")]_vars

\* C28: the variants the sidebar shows were generated for the component the
\* sidebar shows.
C28_RenderedForShownComponent ==
  ~rendered.none => rendered.of = sidebarEl

\* C29: with the popup open and no start or stop message in flight, the
\* toggle's state is "on" exactly when the page is extracting.
C29_ToggleMatchesPageMode ==
  (popupPc # "closed" /\ toggle.flight = <<>>)
    => (toggle.state = "on" <=> isExtracting)
====
